---- MODULE Spec2Model ----
(***************************************************************************)
(* gogen: the Go-to-TypeScript type generator (internal/gen-ts-types).     *)
(*                                                                         *)
(* Go strings are modelled as sequences of one-character strings, so that  *)
(* strings.Contains, HasPrefix, Split, ... are computed on the characters. *)
(* An ast.Expr is a record whose field k names the node type and whose     *)
(* other fields carry the node's own field names (Name, X, Elt, Key, ...). *)
(***************************************************************************)
EXTENDS Integers, Sequences, FiniteSets, TLC

\* String literals of types.go.
Lit ==
    [ string |-> <<"s","t","r","i","n","g">>,
      bool |-> <<"b","o","o","l">>,
      byte |-> <<"b","y","t","e">>,
      rune |-> <<"r","u","n","e">>,
      int |-> <<"i","n","t">>,
      int8 |-> <<"i","n","t","8">>,
      int16 |-> <<"i","n","t","1","6">>,
      int32 |-> <<"i","n","t","3","2">>,
      int64 |-> <<"i","n","t","6","4">>,
      uint |-> <<"u","i","n","t">>,
      uint8 |-> <<"u","i","n","t","8">>,
      uint16 |-> <<"u","i","n","t","1","6">>,
      uint32 |-> <<"u","i","n","t","3","2">>,
      uint64 |-> <<"u","i","n","t","6","4">>,
      uintptr |-> <<"u","i","n","t","p","t","r">>,
      float32 |-> <<"f","l","o","a","t","3","2">>,
      float64 |-> <<"f","l","o","a","t","6","4">>,
      complex64 |-> <<"c","o","m","p","l","e","x","6","4">>,
      complex128 |-> <<"c","o","m","p","l","e","x","1","2","8">>,
      error |-> <<"e","r","r","o","r">>,
      any |-> <<"a","n","y">>,
      boolean |-> <<"b","o","o","l","e","a","n">>,
      number |-> <<"n","u","m","b","e","r">>,
      object |-> <<"o","b","j","e","c","t">>,
      array |-> <<"a","r","r","a","y">>,
      Uint8Array |-> <<"U","i","n","t","8","A","r","r","a","y">>,
      ArrayBuffer |-> <<"A","r","r","a","y","B","u","f","f","e","r">>,
      recordStringAny |-> <<"R","e","c","o","r","d","<","s","t","r","i","n","g",","," ","a","n","y",">">>,
      anyArr |-> <<"a","n","y","[","]">>,
      recordOpen |-> <<"R","e","c","o","r","d","<">>,
      pipeNull |-> <<"|"," ","n","u","l","l">>,
      spPipeNull |-> <<" ","|"," ","n","u","l","l">>,
      ignore |-> <<"i","g","n","o","r","e">>,
      nullable |-> <<"n","u","l","l","a","b","l","e">>,
      omitempty |-> <<"o","m","i","t","e","m","p","t","y">>,
      omitzero |-> <<"o","m","i","t","z","e","r","o">>,
      tsIgnore |-> <<"t","s"," ","i","g","n","o","r","e"," ","/","/">>,
      jsonRawMessage |-> <<"j","s","o","n",".","R","a","w","M","e","s","s","a","g","e">>,
      encodingJsonRawMessage |-> <<"e","n","c","o","d","i","n","g","/","j","s","o","n",".","R","a","w","M","e","s","s","a","g","e">>,
      timeTime |-> <<"t","i","m","e",".","T","i","m","e">>,
      Time |-> <<"T","i","m","e">>,
      exportInterface |-> <<"e","x","p","o","r","t"," ","i","n","t","e","r","f","a","c","e"," ">> ]

\* ------------------------------------------------------------------------
\* Go's package strings, on character sequences.

Min(S) == CHOOSE x \in S : \A y \in S : x <= y

Max(S) == CHOOSE x \in S : \A y \in S : x >= y

Contains(s, substr) ==
    \E i \in 0..(Len(s) - Len(substr)) : SubSeq(s, i + 1, i + Len(substr)) = substr

HasPrefix(s, prefix) ==
    Len(s) >= Len(prefix) /\ SubSeq(s, 1, Len(prefix)) = prefix

HasSuffix(s, suffix) ==
    Len(s) >= Len(suffix) /\ SubSeq(s, Len(s) - Len(suffix) + 1, Len(s)) = suffix

TrimPrefix(s, prefix) ==
    IF HasPrefix(s, prefix) THEN SubSeq(s, Len(prefix) + 1, Len(s)) ELSE s

\* strings.Trim(s, cutset): drop the leading and trailing characters in cutset.
Trim(s, cutset) ==
    LET keep == {i \in 1..Len(s) : s[i] \notin cutset}
    IN  IF keep = {} THEN <<>> ELSE SubSeq(s, Min(keep), Max(keep))

TrimSpace(s) == Trim(s, {" ", "\t", "\n", "\r"})

RECURSIVE Split(_, _)
\* strings.Split(s, sep) for a one-character separator.
Split(s, sep) ==
    LET at == {i \in 1..Len(s) : s[i] = sep}
    IN  IF at = {} THEN <<s>>
        ELSE <<SubSeq(s, 1, Min(at) - 1)>> \o Split(SubSeq(s, Min(at) + 1, Len(s)), sep)

\* ------------------------------------------------------------------------
\* go/ast nodes.

Ident(name) == [k |-> "Ident", Name |-> name]

StarExpr(x) == [k |-> "StarExpr", X |-> x]

ArrayType(elt) == [k |-> "ArrayType", Elt |-> elt]

MapType(key, value) == [k |-> "MapType", Key |-> key, Value |-> value]

StructType(fields) == [k |-> "StructType", Fields |-> fields]

SelectorExpr(x, sel) == [k |-> "SelectorExpr", X |-> x, Sel |-> sel]

InterfaceType == [k |-> "InterfaceType"]

FuncType == [k |-> "FuncType"]

ChanType == [k |-> "ChanType"]

IndexExpr == [k |-> "IndexExpr"]

\* A field tag, read through reflect.StructTag.Get: the value of each of the
\* three keys the generator asks for ("" when the key is absent).
StructTag(json, ts, tsType) == [nil |-> FALSE, json |-> json, ts |-> ts, ts_type |-> tsType]

\* fld.Tag == nil
NilTag == [nil |-> TRUE, json |-> <<>>, ts |-> <<>>, ts_type |-> <<>>]

\* ast.Field: Doc and Comment are the comment groups' raw texts.
Field(names, type, tag, doc, comment) ==
    [Names |-> names, Type |-> type, Tag |-> tag, Doc |-> doc, Comment |-> comment]

\* ast.TypeSpec, with the doc comment group's raw texts.
TypeSpec(name, type, doc) == [Name |-> name, Type |-> type, Doc |-> doc]

\* ------------------------------------------------------------------------
\* types.go

\* basicTypeMap without the entry for rune.
basicTypeMapNoRune ==
    [n \in {Lit.string, Lit.bool, Lit.int, Lit.error, Lit.any, Lit.byte, Lit.uint8} |->
        IF n \in {Lit.string, Lit.error} THEN Lit.string
        ELSE IF n = Lit.bool THEN Lit.boolean
        ELSE IF n = Lit.any THEN Lit.any
        ELSE Lit.number]

basicTypeMap ==
    [n \in {Lit.string, Lit.bool, Lit.byte, Lit.rune, Lit.int, Lit.int8, Lit.int16,
            Lit.int32, Lit.int64, Lit.uint, Lit.uint8, Lit.uint16, Lit.uint32,
            Lit.uint64, Lit.uintptr, Lit.float32, Lit.float64, Lit.complex64,
            Lit.complex128, Lit.error, Lit.any} |->
        IF n = Lit.string THEN Lit.string
        ELSE IF n = Lit.bool THEN Lit.boolean
        ELSE IF n = Lit.error THEN Lit.string
        ELSE IF n = Lit.any THEN Lit.any
        ELSE Lit.number]

\* The zero fieldContext.
fieldContext ==
    [jsonName |-> <<>>, isPtr |-> FALSE, forceNullable |-> FALSE, omitempty |-> FALSE,
     omitzero |-> FALSE, overrideTSType |-> <<>>, insideStruct |-> FALSE,
     tsTagHasNullable |-> FALSE, hasExplicitTSOrType |-> FALSE]

\* The zero parsedTags.
parsedTags ==
    [jsonName |-> <<>>, omitempty |-> FALSE, omitzero |-> FALSE, ts |-> <<>>,
     ignore |-> FALSE, tsNullable |-> FALSE, tsType |-> <<>>]

parseStructTag(fld) ==
    IF fld.Tag.nil THEN parsedTags
    ELSE LET jsonTag == fld.Tag.json
             tsTag   == fld.Tag.ts
             tsType  == fld.Tag.ts_type
             parts   == Split(jsonTag, ",")
         IN  [jsonName   |-> IF jsonTag # <<>> THEN parts[1] ELSE <<>>,
              omitempty  |-> jsonTag # <<>>
                             /\ \E i \in 2..Len(parts) : parts[i] = Lit.omitempty,
              omitzero   |-> jsonTag # <<>>
                             /\ \E i \in 2..Len(parts) : parts[i] = Lit.omitzero,
              ts         |-> tsTag,
              ignore     |-> tsTag = Lit.ignore,
              tsNullable |-> tsTag = Lit.nullable,
              tsType     |-> IF tsType # <<>> THEN TrimSpace(tsType) ELSE <<>>]

RECURSIVE normalizeParts(_, _)
\* The loop of normalizeComment over the lines of a block comment, from part i.
normalizeParts(parts, i) ==
    IF i > Len(parts) THEN <<>>
    ELSE LET p == TrimSpace(TrimPrefix(TrimSpace(parts[i]), <<"*">>))
         IN  (IF p # <<>> THEN <<p>> ELSE <<>>) \o normalizeParts(parts, i + 1)

normalizeComment(text) ==
    IF HasPrefix(text, <<"/", "*">>)
    THEN normalizeParts(Split(Trim(text, {"/", "*"}), "\n"), 1)
    ELSE <<TrimSpace(TrimPrefix(text, <<"/", "/">>))>>

RECURSIVE normalizeAll(_, _)
\* append(lines, normalizeComment(c.Text)...) over a comment group, from i.
normalizeAll(list, i) ==
    IF i > Len(list) THEN <<>>
    ELSE normalizeComment(list[i]) \o normalizeAll(list, i + 1)

hasTSIgnoreOnField(fld) ==
    LET lines == normalizeAll(fld.Doc, 1) \o normalizeAll(fld.Comment, 1)
    IN  lines # <<>> /\ lines[Len(lines)] = Lit.tsIgnore

\* isPtrType that takes a slice for a pointer as well.
isPtrTypeOrSlice(expr) == expr.k \in {"StarExpr", "ArrayType"}

isPtrType(expr) == expr.k = "StarExpr"

isSliceType(expr) == expr.k = "ArrayType"

isMapType(expr) == expr.k = "MapType"

\* wrapIfUnion without the test for an inline object type.
wrapIfSpace(ts) ==
    IF Contains(ts, <<" ">>) \/ Contains(ts, <<"|">>)
    THEN <<"(">> \o ts \o <<")">>
    ELSE ts

wrapIfUnion(ts) ==
    IF Contains(ts, <<" ">>) \/ Contains(ts, <<"|">>) \/ HasPrefix(ts, <<"{">>)
    THEN <<"(">> \o ts \o <<")">>
    ELSE ts

\* isIdentByte without the uint8 spelling.
isIdentByteOnly(expr) ==
    expr.k = "Ident" /\ expr.Name = Lit.byte

\* isIdentByte that takes every identifier for byte.
isIdentByteAny(expr) == expr.k = "Ident"

isIdentByte(expr) ==
    expr.k = "Ident" /\ (expr.Name = Lit.byte \/ expr.Name = Lit.uint8)

tsOverrideToType(v) ==
    CASE v = Lit.string      -> Lit.string
      [] v = Lit.number      -> Lit.number
      [] v = Lit.boolean     -> Lit.boolean
      [] v = Lit.object      -> Lit.recordStringAny
      [] v = Lit.array       -> Lit.anyArr
      [] v = Lit.any         -> Lit.any
      [] v = Lit.Uint8Array  -> Lit.Uint8Array
      [] v = Lit.ArrayBuffer -> Lit.ArrayBuffer
      [] OTHER               -> Lit.any

\* mapKeyToTS giving a builtin key the type basicTypeMap maps it to.
mapKeyToTSBasic(g, expr) ==
    IF expr.k = "Ident" /\ expr.Name \in DOMAIN basicTypeMap
    THEN basicTypeMap[expr.Name]
    ELSE Lit.string

mapKeyToTS(g, expr) ==
    IF expr.k = "Ident"
    THEN IF expr.Name = Lit.string THEN Lit.string
         ELSE IF expr.Name = Lit.bool THEN Lit.string
         ELSE IF expr.Name \in DOMAIN basicTypeMap
              THEN (IF expr.Name = Lit.string THEN Lit.string ELSE Lit.number)
              ELSE Lit.string
    ELSE Lit.string

RECURSIVE exprToTSType(_, _, _)
RECURSIVE collectStructFields(_, _)
RECURSIVE collectFrom(_, _, _)
RECURSIVE joinInline(_, _)

\* strings.TrimSpace(line), then " " between the lines, of the inline struct.
joinInline(fields, i) ==
    IF i > Len(fields) THEN <<>>
    ELSE TrimSpace(fields[i]) \o (IF i < Len(fields) THEN <<" ">> ELSE <<>>)
         \o joinInline(fields, i + 1)

generateFieldLine(g, goFieldName, fld) ==
    LET hasIgnoreComment == hasTSIgnoreOnField(fld)
        tags         == parseStructTag(fld)
        hasTsTag     == tags.ts # <<>>
        hasTsTypeTag == tags.tsType # <<>>
        propName     == IF tags.jsonName = <<>> THEN goFieldName ELSE tags.jsonName
        isPtr        == isPtrType(fld.Type)
        isSlice      == isSliceType(fld.Type)
        isMap        == isMapType(fld.Type)
        optional     == isPtr \/ tags.omitempty \/ tags.omitzero
        nullable     == isPtr \/ isSlice \/ isMap \/ tags.tsNullable
        ctx          == [jsonName |-> propName, isPtr |-> isPtr,
                         forceNullable |-> nullable, omitempty |-> tags.omitempty,
                         omitzero |-> tags.omitzero, overrideTSType |-> tags.tsType,
                         insideStruct |-> TRUE, tsTagHasNullable |-> tags.tsNullable,
                         hasExplicitTSOrType |-> hasTsTag \/ hasTsTypeTag]
        tsType       == exprToTSType(g, fld.Type, ctx)
        qs           == IF optional THEN <<"?">> ELSE <<>>
        tsNull       == IF nullable /\ ~Contains(tsType, Lit.pipeNull)
                        THEN tsType \o Lit.spPipeNull ELSE tsType
    IN  IF hasIgnoreComment /\ ~(hasTsTag \/ hasTsTypeTag) THEN <<>>
        ELSE IF tags.ignore THEN <<>>
        ELSE IF tags.jsonName = <<"-">> THEN <<>>
        ELSE propName \o qs \o <<":", " ">> \o tsNull \o <<";">>

RECURSIVE namedLines(_, _, _)
\* The loop over fld.Names of collectStructFields, from name j.
namedLines(g, fld, j) ==
    IF j > Len(fld.Names) THEN <<>>
    ELSE LET line == generateFieldLine(g, fld.Names[j], fld)
         IN  (IF line = <<>> THEN <<>> ELSE <<line>>) \o namedLines(g, fld, j + 1)

\* The struct a registered name stands for, as expandEmbeddedField looks it up:
\* the fields of that struct, or nothing when the name is not a registered struct.
embeddedIdent(g, name) ==
    IF name \notin DOMAIN g.registry THEN <<>>
    ELSE IF g.registry[name].Type.k # "StructType" THEN <<>>
    ELSE collectStructFields(g, g.registry[name].Type)

\* expandEmbeddedField without the case of an embedded pointer.
expandEmbeddedValue(g, fld) ==
    IF fld.Type.k = "Ident" THEN embeddedIdent(g, fld.Type.Name) ELSE <<>>

expandEmbeddedField(g, fld) ==
    LET t == fld.Type
    IN  CASE t.k = "Ident" -> embeddedIdent(g, t.Name)
          [] t.k = "StarExpr" ->
                (CASE t.X.k = "Ident" -> embeddedIdent(g, t.X.Name)
                   [] t.X.k = "StructType" -> collectStructFields(g, t.X)
                   [] OTHER -> <<>>)
          [] t.k = "StructType" -> collectStructFields(g, t)
          [] OTHER -> <<>>

\* The loop over st.Fields.List of collectStructFields, from field i.
collectFrom(g, st, i) ==
    IF i > Len(st.Fields) THEN <<>>
    ELSE LET fld == st.Fields[i]
         IN  (IF Len(fld.Names) = 0 THEN expandEmbeddedField(g, fld)
              ELSE namedLines(g, fld, 1))
             \o collectFrom(g, st, i + 1)

collectStructFields(g, st) == collectFrom(g, st, 1)

exprToTSType(g, expr, ctx) ==
    CASE expr.k = "Ident" ->
            IF expr.Name = Lit.any THEN Lit.any
            ELSE IF expr.Name \in DOMAIN basicTypeMap THEN basicTypeMap[expr.Name]
            ELSE IF expr.Name \in DOMAIN g.registry THEN expr.Name
            ELSE Lit.any
      [] expr.k = "ArrayType" ->
            IF isIdentByte(expr.Elt)
            THEN (IF ctx.overrideTSType # <<>> THEN tsOverrideToType(ctx.overrideTSType)
                  ELSE Lit.string)
            ELSE wrapIfUnion(exprToTSType(g, expr.Elt,
                    [ctx EXCEPT !.isPtr = FALSE, !.forceNullable = FALSE,
                                !.overrideTSType = <<>>])) \o <<"[", "]">>
      [] expr.k = "StarExpr" ->
            exprToTSType(g, expr.X, [ctx EXCEPT !.isPtr = TRUE])
      [] expr.k = "MapType" ->
            Lit.recordOpen \o mapKeyToTS(g, expr.Key) \o <<",", " ">>
            \o exprToTSType(g, expr.Value,
                    [ctx EXCEPT !.isPtr = FALSE, !.forceNullable = FALSE,
                                !.overrideTSType = <<>>])
            \o <<">">>
      [] expr.k = "StructType" ->
            LET fields == collectStructFields(g, expr)
            IN  IF Len(fields) = 0 THEN <<"{", "}">>
                ELSE <<"{", " ">> \o joinInline(fields, 1) \o <<" ", "}">>
      [] expr.k = "SelectorExpr" ->
            LET pkgName == IF expr.X.k = "Ident" THEN expr.X.Name ELSE <<>>
                qname   == IF pkgName # <<>> THEN pkgName \o <<".">> \o expr.Sel
                           ELSE expr.Sel
            IN  IF qname = Lit.jsonRawMessage \/ qname = Lit.encodingJsonRawMessage
                THEN (IF ctx.overrideTSType = Lit.array THEN Lit.anyArr
                      ELSE IF ctx.overrideTSType = Lit.object THEN Lit.recordStringAny
                      ELSE Lit.any)
                ELSE IF qname = Lit.timeTime THEN Lit.string
                ELSE Lit.any
      [] expr.k = "Ellipsis" ->
            wrapIfUnion(exprToTSType(g, expr.Elt, fieldContext)) \o <<"[", "]">>
      [] OTHER -> Lit.any

generateInterface(g, name, st) ==
    LET fields == collectStructFields(g, st)
        body[i \in 0..Len(fields)] ==
            IF i = 0 THEN <<>> ELSE body[i - 1] \o <<" ", " ">> \o fields[i] \o <<"\n">>
    IN  Lit.exportInterface \o name \o <<" ", "{", "\n">> \o body[Len(fields)]
        \o <<"}", "\n">>

\* String literals of generator.go.
GenLit ==
    [ dotDTS |-> <<".","d",".","t","s">>,
      dotGo |-> <<".","g","o">>,
      testGo |-> <<"_","t","e","s","t",".","g","o">>,
      test |-> <<"_","t","e","s","t">>,
      tsIgnore |-> <<"t","s"," ","i","g","n","o","r","e"," ","/","/">>,
      exportType |-> <<"e","x","p","o","r","t"," ","t","y","p","e"," ">>,
      generated |-> <<"/","/"," ","C","o","d","e"," ","g","e","n","e","r","a","t","e","d"," ","b","y"," ","g","o","-","t","s","-","t","y","p","e","s","."," ","D","O"," ","N","O","T"," ","E","D","I","T",".","\n">>,
      package |-> <<"/","/"," ","P","a","c","k","a","g","e",":"," ">>,
      importPath |-> <<"/","/"," ","I","m","p","o","r","t"," ","P","a","t","h",":"," ">>,
      banner |-> <<"/","/"," ","=","=","=","=","=","=","=","=","=","=","=","=","=","=","=","=","=","=","=","=","=","=","=","=","=","=","=","=","=","=","=","=","=","=","=","=","=","=","=","=","=","=","=","=","=","=","=","=","=","=","=","=","=","\n">> ]

\* ------------------------------------------------------------------------
\* More of Go's standard library: strings, path/filepath, sort.

upperCase ==
    <<"A", "B", "C", "D", "E", "F", "G", "H", "I", "J", "K", "L", "M",
      "N", "O", "P", "Q", "R", "S", "T", "U", "V", "W", "X", "Y", "Z">>

lowerCase ==
    <<"a", "b", "c", "d", "e", "f", "g", "h", "i", "j", "k", "l", "m",
      "n", "o", "p", "q", "r", "s", "t", "u", "v", "w", "x", "y", "z">>

ToLower(s) ==
    [i \in 1..Len(s) |->
        IF \E j \in 1..26 : upperCase[j] = s[i]
        THEN lowerCase[CHOOSE j \in 1..26 : upperCase[j] = s[i]]
        ELSE s[i]]

\* strings.LastIndex(s, c) for a one-character c: 0-based, -1 when absent.
LastIndex(s, c) ==
    LET at == {i \in 1..Len(s) : s[i] = c}
    IN  IF at = {} THEN -1 ELSE Max(at) - 1

RECURSIVE stringLess(_, _)
\* a < b on Go strings (bytewise).
stringLess(a, b) ==
    LET
        \* The bytes of the characters that occur in identifiers, in ascending order.
        byteOrder ==
            <<"0", "1", "2", "3", "4", "5", "6", "7", "8", "9">> \o upperCase \o <<"_">> \o lowerCase
        byteOf(c) == CHOOSE i \in 1..Len(byteOrder) : byteOrder[i] = c
    IN
    IF b = <<>> THEN FALSE
    ELSE IF a = <<>> THEN TRUE
    ELSE IF a[1] = b[1] THEN stringLess(Tail(a), Tail(b))
    ELSE byteOf(a[1]) < byteOf(b[1])

RECURSIVE sortStrings(_)
\* sort.Strings on the names collected from the map: ascending, whatever the
\* order the map iteration produced them in.
sortStrings(names) ==
    IF names = {} THEN <<>>
    ELSE LET least == CHOOSE n \in names : \A m \in names \ {n} : stringLess(n, m)
         IN  <<least>> \o sortStrings(names \ {least})

\* filepath.Dir on a clean slash-separated path.
filepathDir(path) ==
    LET i == LastIndex(path, "/")
    IN  IF i = -1 THEN <<".">>
        ELSE IF i = 0 THEN <<"/">>
        ELSE SubSeq(path, 1, i)

filepathJoin(dir, name) == dir \o <<"/">> \o name

\* The working directory of the process.
cwd == <<"/", "w">>

\* filepath.Abs on the paths of this model.
filepathAbs(path) ==
    IF HasPrefix(path, <<"/">>) THEN path
    ELSE filepathJoin(cwd, TrimPrefix(path, <<".", "/">>))

\* os.PathSeparator on the platforms whose separator is the slash.
PathSeparator == "/"

\* ------------------------------------------------------------------------
\* The file system under the output target: a node per path.

Absent == [t |-> "absent"]

Dir == [t |-> "dir"]

File(data) == [t |-> "file", data |-> data]

isUnder(path, root) == HasPrefix(path, root \o <<"/">>)

\* The working directory itself always exists.
isDirAt(f, path) == path = <<".">> \/ (path \in DOMAIN f /\ f[path].t = "dir")

RECURSIVE MkdirAll(_, _)
\* os.MkdirAll: creates dir and its missing parents; fails on a path
\* component that exists and is not a directory.
MkdirAll(f, dir) ==
    IF isDirAt(f, dir) THEN [ok |-> TRUE, fs |-> f]
    ELSE IF dir \notin DOMAIN f \/ f[dir].t = "file" THEN [ok |-> FALSE, fs |-> f]
    ELSE LET up == MkdirAll(f, filepathDir(dir))
         IN  IF up.ok THEN [ok |-> TRUE, fs |-> [up.fs EXCEPT ![dir] = Dir]]
             ELSE up

\* os.RemoveAll: path and everything under it.
RemoveAll(f, path) ==
    [q \in DOMAIN f |-> IF q = path \/ isUnder(q, path) THEN Absent ELSE f[q]]

\* os.Stat: "dir", "file", "notexist", or "error" (a parent that is a file).
Stat(f, path) ==
    IF f[path].t # "absent" THEN f[path].t
    ELSE IF isDirAt(f, filepathDir(path)) \/ f[filepathDir(path)].t = "absent"
    THEN "notexist"
    ELSE "error"

\* os.ReadDir: the entries of a directory.
ReadDir(f, path) == {q \in DOMAIN f : filepathDir(q) = path /\ f[q].t # "absent"}

\* os.WriteFile(name, data, perm) under outcome w.
WriteFile(f, name, data, w) ==
    IF f[name].t = "dir" \/ ~isDirAt(f, filepathDir(name)) \/ w = "open"
    THEN [ok |-> FALSE, fs |-> f]
    ELSE IF w = "partial" THEN [ok |-> FALSE, fs |-> [f EXCEPT ![name] = File(<<>>)]]
    ELSE [ok |-> TRUE, fs |-> [f EXCEPT ![name] = File(data)]]

\* ------------------------------------------------------------------------
\* generator.go: the loader.

\* ast.GenDecl of a type declaration: its doc comment group and its specs.
GenDecl(doc, specs) == [Doc |-> doc, Specs |-> specs]

\* A Go source file: its name, its package clause, its type declarations, and
\* whether it has a syntax error.
SourceFile(name, pkg, decls, bad) == [name |-> name, pkg |-> pkg, Decls |-> decls, bad |-> bad]

\* The directory the local inputs of this model point into.
sourceDir == filepathJoin(cwd, <<"s">>)

LoadOk(pkgs) == [err |-> "nil", pkgs |-> pkgs]

LoadErr(msg) == [err |-> msg, pkgs |-> <<>>]

pkgData(pkgName, importPath, astPkg, typeFilter) ==
    [PkgName |-> pkgName, ImportPath |-> importPath, ASTPkg |-> astPkg,
     TypeFilter |-> typeFilter]

\* parser.ParseDir: the files the filter lets through, grouped by package name.
ParseDir(files) ==
    LET
        \* The filter loadFromDir hands to parser.ParseDir.
        parseFilter(name) ==
            IF HasSuffix(name, GenLit.testGo) THEN FALSE ELSE HasSuffix(name, GenLit.dotGo)
    IN
    LET sel == {f \in files : parseFilter(f.name)}
    IN  [err  |-> \E f \in sel : f.bad,
         pkgs |-> [n \in {f.pkg : f \in sel} |->
                      [Name |-> n, Files |-> {f \in sel : f.pkg = n}]]]

\* The outcomes of loadFromDir: one per package the range over the map of
\* parsed packages can yield first (Go leaves a map's iteration order open).
loadFromDir(world, dir) ==
    LET abs    == filepathAbs(dir)
        parsed == ParseDir(world.files)
        pkgs   == parsed.pkgs
        primary == {n \in DOMAIN pkgs : ~HasSuffix(n, GenLit.test)}
        chosen == IF primary # {} THEN primary ELSE DOMAIN pkgs
    IN  IF abs # sourceDir THEN {LoadErr("directory path is invalid")}
        ELSE IF parsed.err THEN {LoadErr("failed to parse directory")}
        ELSE IF DOMAIN pkgs = {} THEN {LoadErr("no go packages found in the directory")}
        ELSE {LoadOk(<<pkgData(n, abs, pkgs[n], <<>>)>>) : n \in chosen}

loadFromFile(world, path) ==
    LET abs  == filepathAbs(path)
        base == SubSeq(abs, LastIndex(abs, "/") + 2, Len(abs))
    IN  IF filepathDir(abs) = sourceDir /\ \E f \in world.files : f.name = base
        THEN loadFromDir(world, filepathDir(abs))
        ELSE {LoadErr("file path is invalid or points to a directory")}

isLikelyPath(p) ==
    \/ HasPrefix(p, <<".", "/">>)
    \/ HasPrefix(p, <<".", ".", "/">>)
    \/ HasPrefix(p, <<"/">>)
    \/ Contains(p, <<PathSeparator>>)

splitImportType(s) ==
    LET lastSlash == LastIndex(s, "/")
        lastDot   == LastIndex(s, ".")
    IN  IF lastDot > lastSlash /\ lastDot # -1
        THEN <<SubSeq(s, 1, lastDot), SubSeq(s, lastDot + 2, Len(s))>>
        ELSE <<s, <<>>>>

loadFromImportOrType(world, path) ==
    LET imp      == splitImportType(path)[1]
        typeName == splitImportType(path)[2]
    IN  IF imp \notin DOMAIN world.packages
        THEN {LoadErr("package contains build or load errors")}
        ELSE LET p == world.packages[imp]
             IN  IF \E f \in p.GoFiles : f.bad THEN {LoadErr("failed to parse package files")}
                 ELSE {LoadOk(<<pkgData(p.Name, p.PkgPath,
                                         [Name |-> p.Name, Files |-> p.GoFiles],
                                         typeName)>>)}

loadFromInput(world, in) ==
    IF HasSuffix(ToLower(in), GenLit.dotGo) THEN loadFromFile(world, in)
    ELSE IF isLikelyPath(in) THEN loadFromDir(world, in)
    ELSE loadFromImportOrType(world, in)

\* ------------------------------------------------------------------------
\* generator.go: registry, documentation, emission.

\* Every TypeSpec the loops of buildTypeRegistry visit: files, declarations, specs.
typeSpecsOf(astPkg) ==
    UNION { UNION { {f.Decls[i].Specs[j] : j \in 1..Len(f.Decls[i].Specs)} :
                    i \in 1..Len(f.Decls) } : f \in astPkg.Files }

buildTypeRegistry(astPkg) ==
    [n \in {ts.Name : ts \in typeSpecsOf(astPkg)} |->
        CHOOSE ts \in typeSpecsOf(astPkg) : ts.Name = n]

collectTypeSpecs(astPkg) == buildTypeRegistry(astPkg)

\* go/doc's New takes the AST over: the doc comment of every type declaration
\* and type spec is consumed, i.e. set to nil in the AST it was given.
docConsumed(astPkg) ==
    [astPkg EXCEPT !.Files =
        { [f EXCEPT !.Decls =
              [i \in 1..Len(f.Decls) |->
                  [Doc   |-> <<>>,
                   Specs |-> [j \in 1..Len(f.Decls[i].Specs) |->
                                 [f.Decls[i].Specs[j] EXCEPT !.Doc = <<>>]]]]]
          : f \in astPkg.Files }]

RECURSIVE commentText(_, _)
\* ast.CommentGroup.Text of line comments: the marker and one space after it are
\* dropped, and every line ends with a newline.
commentText(list, i) ==
    IF i > Len(list) THEN <<>>
    ELSE TrimPrefix(TrimPrefix(list[i], <<"/", "/">>), <<" ">>) \o <<"\n">>
         \o commentText(list, i + 1)

\* doc.Type.Doc of each type: the text of the spec's doc comment, or of the
\* declaration's when the spec has none.
docTypes(astPkg) ==
    UNION { UNION { { [Name |-> f.Decls[i].Specs[j].Name,
                       Doc  |-> commentText(IF f.Decls[i].Specs[j].Doc # <<>>
                                            THEN f.Decls[i].Specs[j].Doc
                                            ELSE f.Decls[i].Doc, 1)]
                      : j \in 1..Len(f.Decls[i].Specs) } :
                    i \in 1..Len(f.Decls) } : f \in astPkg.Files }

buildTypeDocMap(pkgTypes) ==
    [n \in {t.Name : t \in {u \in pkgTypes : TrimSpace(u.Doc) # <<>>}} |->
        Split(TrimSpace((CHOOSE t \in pkgTypes : t.Name = n).Doc), "\n")]

writeHeader(pkgName, importPath) ==
    GenLit.generated \o GenLit.package \o pkgName \o <<"\n">>
    \o (IF importPath # <<>> THEN GenLit.importPath \o importPath \o <<"\n">> ELSE <<>>)
    \o <<"\n">>

RECURSIVE emitDocLines(_, _)
emitDocLines(docLines, i) ==
    IF i > Len(docLines) THEN <<>>
    ELSE (IF docLines[i] = <<>> THEN <<"/", "/", "\n">>
          ELSE <<"/", "/", " ">> \o docLines[i] \o <<"\n">>)
         \o emitDocLines(docLines, i + 1)

RECURSIVE typeIgnoreLines(_, _)
\* The loop of hasTSIgnoreType over the lines of a block comment.
typeIgnoreLines(lns, i) ==
    IF i > Len(lns) THEN <<>>
    ELSE LET t == TrimSpace(TrimPrefix(TrimPrefix(lns[i], <<"/", "/">>), <<"*">>))
         IN  (IF t # <<>> THEN <<t>> ELSE <<>>) \o typeIgnoreLines(lns, i + 1)

RECURSIVE typeIgnoreTexts(_, _)
\* The loop of hasTSIgnoreType over spec.Doc.List.
typeIgnoreTexts(list, i) ==
    IF i > Len(list) THEN <<>>
    ELSE (IF HasPrefix(list[i], <<"/", "*">>)
          THEN typeIgnoreLines(Split(Trim(list[i], {"/", "*"}), "\n"), 1)
          ELSE <<TrimSpace(TrimPrefix(list[i], <<"/", "/">>))>>)
         \o typeIgnoreTexts(list, i + 1)

hasTSIgnoreType(spec) ==
    LET texts == typeIgnoreTexts(spec.Doc, 1)
    IN  texts # <<>> /\ texts[Len(texts)] = GenLit.tsIgnore

\* Bound on the depth of nested collectStructFields calls the goroutine's stack
\* holds; one more call is a fatal stack overflow.
MaxStack == 5

RECURSIVE collectOverflows(_, _, _)
RECURSIVE exprOverflows(_, _, _)

\* Whether generateFieldLine returns before it maps the field's type.
fieldDropped(fld) ==
    LET tags == parseStructTag(fld)
    IN  \/ hasTSIgnoreOnField(fld) /\ ~(tags.ts # <<>> \/ tags.tsType # <<>>)
        \/ tags.ignore
        \/ tags.jsonName = <<"-">>

\* Whether expandEmbeddedField, called from a collectStructFields at depth d,
\* runs out of stack.
embeddedOverflows(g, fld, d) ==
    LET t == fld.Type
        byName(n) == /\ n \in DOMAIN g.registry
                     /\ g.registry[n].Type.k = "StructType"
                     /\ collectOverflows(g, g.registry[n].Type, d + 1)
    IN  CASE t.k = "Ident" -> byName(t.Name)
          [] t.k = "StarExpr" ->
                (CASE t.X.k = "Ident" -> byName(t.X.Name)
                   [] t.X.k = "StructType" -> collectOverflows(g, t.X, d + 1)
                   [] OTHER -> FALSE)
          [] t.k = "StructType" -> collectOverflows(g, t, d + 1)
          [] OTHER -> FALSE

\* Whether exprToTSType, called from a collectStructFields at depth d, runs out
\* of stack: it calls collectStructFields again on an inline struct.
exprOverflows(g, expr, d) ==
    CASE expr.k = "ArrayType" -> ~isIdentByte(expr.Elt) /\ exprOverflows(g, expr.Elt, d)
      [] expr.k = "StarExpr" -> exprOverflows(g, expr.X, d)
      [] expr.k = "MapType" -> exprOverflows(g, expr.Value, d)
      [] expr.k = "StructType" -> collectOverflows(g, expr, d + 1)
      [] OTHER -> FALSE

\* Whether the call of collectStructFields(g, st) that is the d-th nested one
\* overflows the stack, itself or in a call it makes.
collectOverflows(g, st, d) ==
    \/ d > MaxStack
    \/ \E i \in 1..Len(st.Fields) :
          IF Len(st.Fields[i].Names) = 0 THEN embeddedOverflows(g, st.Fields[i], d)
          ELSE ~fieldDropped(st.Fields[i]) /\ exprOverflows(g, st.Fields[i].Type, d)

\* filteredSpecs that does not look at the filter.
filteredSpecsAll(typeSpecs, typeFilter) == typeSpecs

\* The types Generate emits for a package: all of them, or the one the filter names.
filteredSpecs(typeSpecs, typeFilter) ==
    IF typeFilter # <<>>
    THEN [n \in {m \in DOMAIN typeSpecs : m = typeFilter} |-> typeSpecs[n]]
    ELSE typeSpecs

\* Whether emitting the package overflows the stack.
emitOverflows(pkg) ==
    LET ast      == docConsumed(pkg.ASTPkg)
        g        == [registry |-> buildTypeRegistry(ast)]
        filtered == filteredSpecs(collectTypeSpecs(ast), pkg.TypeFilter)
    IN  \E n \in DOMAIN filtered :
            /\ ~hasTSIgnoreType(filtered[n])
            /\ IF filtered[n].Type.k = "StructType"
               THEN collectOverflows(g, filtered[n].Type, 1)
               ELSE exprOverflows(g, filtered[n].Type, 0)

\* One iteration of the emit loop of Generate.
emitType(g, typeDocMap, name, spec) ==
    LET docLines == IF name \in DOMAIN typeDocMap THEN typeDocMap[name] ELSE <<>>
    IN  IF hasTSIgnoreType(spec) THEN <<>>
        ELSE IF spec.Type.k = "StructType"
        THEN emitDocLines(docLines, 1) \o generateInterface(g, name, spec.Type) \o <<"\n">>
        ELSE emitDocLines(docLines, 1) \o GenLit.exportType \o name \o <<" ", "=", " ">>
             \o exprToTSType(g, spec.Type, fieldContext) \o <<";", "\n", "\n">>

RECURSIVE emitTypes(_, _, _, _, _)
emitTypes(g, typeDocMap, filtered, names, i) ==
    IF i > Len(names) THEN <<>>
    ELSE emitType(g, typeDocMap, names[i], filtered[names[i]])
         \o emitTypes(g, typeDocMap, filtered, names, i + 1)

\* generatePackage that leaves the buffer empty when no type is to be emitted.
generatePackageOrNothing(pkg) ==
    LET typeDocMap == buildTypeDocMap(docTypes(pkg.ASTPkg))
        ast        == docConsumed(pkg.ASTPkg)
        g          == [registry |-> buildTypeRegistry(ast)]
        filtered   == filteredSpecs(collectTypeSpecs(ast), pkg.TypeFilter)
        names      == sortStrings(DOMAIN filtered)
    IN  [pkgName |-> pkg.PkgName,
         content |-> IF names = <<>> THEN <<>>
                     ELSE writeHeader(pkg.PkgName, pkg.ImportPath)
                          \o emitTypes(g, typeDocMap, filtered, names, 1)]

\* The body of Generate's loop over the loaded packages: the packOut of pkg.
generatePackage(pkg) ==
    LET typeDocMap == buildTypeDocMap(docTypes(pkg.ASTPkg))
        ast        == docConsumed(pkg.ASTPkg)
        g          == [registry |-> buildTypeRegistry(ast)]
        filtered   == filteredSpecs(collectTypeSpecs(ast), pkg.TypeFilter)
        names      == sortStrings(DOMAIN filtered)
    IN  [pkgName |-> pkg.PkgName,
         content |-> writeHeader(pkg.PkgName, pkg.ImportPath)
                     \o emitTypes(g, typeDocMap, filtered, names, 1)]

\* ------------------------------------------------------------------------
\* generator.go: Generate.

isSingleFile(out) == HasSuffix(ToLower(out), GenLit.dotDTS)

\* checkDirStatus that reports every existing directory as empty.
checkDirStatusEmpty(f, path) ==
    LET st == Stat(f, path)
    IN  [exists |-> st = "dir", notEmpty |-> FALSE, err |-> st \in {"error", "file"}]

checkDirStatus(f, path) ==
    LET st == Stat(f, path)
    IN  IF st = "notexist" THEN [exists |-> FALSE, notEmpty |-> FALSE, err |-> FALSE]
        ELSE IF st = "error" THEN [exists |-> FALSE, notEmpty |-> FALSE, err |-> TRUE]
        ELSE IF st = "file" THEN [exists |-> FALSE, notEmpty |-> FALSE, err |-> TRUE]
        ELSE [exists |-> TRUE, notEmpty |-> ReadDir(f, path) # {}, err |-> FALSE]

RECURSIVE writePackagesToDir(_, _, _, _, _)
\* The loop of writePackagesToDir from result i, every os.WriteFile ending as w.
writePackagesToDir(f, dir, res, i, w) ==
    IF i > Len(res) THEN [ok |-> TRUE, fs |-> f]
    ELSE LET r == WriteFile(f, filepathJoin(dir, res[i].pkgName \o GenLit.dotDTS),
                            res[i].content, w)
         IN  IF r.ok THEN writePackagesToDir(r.fs, dir, res, i + 1, w) ELSE r

RECURSIVE singleFileContent(_, _)
\* The buffer Generate concatenates for a single output file, from result i.
singleFileContent(res, i) ==
    IF i > Len(res) THEN <<>>
    ELSE (IF i > 1 THEN <<"\n">> ELSE <<>>)
         \o GenLit.banner \o GenLit.package \o res[i].pkgName \o <<"\n">>
         \o GenLit.banner \o <<"\n">> \o res[i].content
         \o singleFileContent(res, i + 1)

\* A rollback that removes the output in single-file mode as well.
rollbackAlways(f, out, single, created) == RemoveAll(f, out)

\* Generate without the rollback: the prepared output is left as it is.
rollbackSkipped(f, out, single, created) == f

\* The rollback of Generate when loading fails: os.RemoveAll(output) in directory
\* mode. The call's own error is discarded by the code; the removal is taken to
\* succeed.
rollbackOutput(f, out, single, created) ==
    IF ~single /\ created THEN RemoveAll(f, out) ELSE f

\* ------------------------------------------------------------------------
\* The fields the type mapper and the struct emitter are applied to.

\* Bound on the nesting of pointer, slice and map types around a leaf type.
MaxDepth == 2

\* The names the samples use: the type names A, T, Base, Zed and Mid, the field
\* name F, the package pk, the file a.go, the paths p, p/o, p/o/k, p/f.d.ts and
\* p/F.D.TS, and the old content of a file.
Nm ==
    [A |-> <<"A">>,
     T |-> <<"T">>,
     Base |-> <<"B", "a", "s", "e">>,
     Zed |-> <<"Z", "e", "d">>,
     F |-> <<"F">>,
     Mid |-> <<"M", "i", "d">>,
     pk |-> <<"p", "k">>,
     aGo |-> <<"a", ".", "g", "o">>,
     p |-> <<"p">>,
     o |-> <<"p", "/", "o">>,
     keep |-> <<"p", "/", "o", "/", "k">>,
     f |-> <<"p", "/", "f">> \o GenLit.dotDTS,
     fU |-> <<"p", "/", "F", ".", "D", ".", "T", "S">>,
     old |-> <<"o", "l", "d">>]

plainField(name, type) == Field(<<name>>, type, NilTag, <<>>, <<>>)

\* A package declaring
\*   type Base struct { ID int; Tags []string }
\*   type A struct { P *int }
\*   type Mid struct { X int; *Base; Y string `json:"y,omitempty"` }
\*   type T int
SampleRegistry ==
    [n \in {Nm.Base, Nm.A, Nm.Mid, Nm.T} |->
        IF n = Nm.Base
        THEN TypeSpec(n, StructType(<<plainField(<<"I", "D">>, Ident(Lit.int)),
                                      plainField(<<"T", "a", "g", "s">>,
                                                 ArrayType(Ident(Lit.string)))>>), <<>>)
        ELSE IF n = Nm.A
        THEN TypeSpec(n, StructType(<<plainField(<<"P">>, StarExpr(Ident(Lit.int)))>>), <<>>)
        ELSE IF n = Nm.Mid
        THEN TypeSpec(n, StructType(<<plainField(<<"X">>, Ident(Lit.int)),
                                      Field(<<>>, StarExpr(Ident(Nm.Base)), NilTag, <<>>, <<>>),
                                      Field(<<<<"Y">>>>, Ident(Lit.string),
                                            StructTag(<<"y", ",">> \o Lit.omitempty, <<>>, <<>>),
                                            <<>>, <<>>)>>), <<>>)
        ELSE TypeSpec(n, Ident(Lit.int), <<>>)]

SampleContext == [registry |-> SampleRegistry]

jsonRawMessage == SelectorExpr(Ident(<<"j", "s", "o", "n">>), <<"R", "a", "w", "M", "e", "s", "s", "a", "g", "e">>)

timeTime == SelectorExpr(Ident(<<"t", "i", "m", "e">>), Lit.Time)

LeafTypes ==
    LET
        InlineStructs ==
            { StructType(<<>>),
              StructType(<<plainField(<<"P">>, StarExpr(Ident(Lit.int)))>>),
              StructType(<<plainField(<<"N">>, Ident(Lit.int))>>),
              StructType(<<plainField(<<"N">>, Ident(Lit.int)),
                           plainField(<<"S">>, ArrayType(Ident(Lit.string)))>>) }
    IN
    { Ident(n) : n \in {Lit.string, Lit.bool, Lit.int, Lit.byte, Lit.uint8, Lit.error,
                        Lit.any, Nm.A, Nm.Zed} }
    \cup { jsonRawMessage, timeTime, SelectorExpr(Ident(<<"x">>), <<"Y">>) }
    \cup { InterfaceType, IndexExpr }
    \cup InlineStructs

RECURSIVE TypeExprs(_)
TypeExprs(d) ==
    LET
        MapKeys ==
            { Ident(n) : n \in {Lit.string, Lit.bool, Lit.int, Lit.uint8, Lit.any, Nm.A, Nm.Zed} }
            \cup { StarExpr(Ident(Lit.int)), timeTime, ArrayType(Ident(Lit.int)) }
        NestedMapKeys == { Ident(Lit.string), Ident(Lit.int) }
    IN
    IF d = 0 THEN LeafTypes
    ELSE LET S == TypeExprs(d - 1)
         IN  S \cup { StarExpr(e) : e \in S } \cup { ArrayType(e) : e \in S }
               \cup { MapType(key, e) : key \in NestedMapKeys, e \in S }
               \cup { MapType(key, e) : key \in MapKeys, e \in LeafTypes }

AllTags ==
    LET
        JsonValues ==
            { <<>>, <<"n">>, <<"n", ",">> \o Lit.omitempty, <<",">> \o Lit.omitzero,
              <<"-">>, <<"-", ",">> \o Lit.omitempty }
        TsValues == { <<>>, Lit.ignore, Lit.nullable }
        TsTypeValues ==
            { <<>>, Lit.string, Lit.number, Lit.boolean, Lit.object, Lit.array, Lit.any,
              Lit.Uint8Array, Lit.ArrayBuffer, <<"b", "o", "g", "u", "s">>,
              <<" ">> \o Lit.Uint8Array \o <<" ">> }
    IN
    { StructTag(j, t, y) : j \in JsonValues, t \in TsValues, y \in TsTypeValues }

\* (Doc, Comment) pairs
CommentPairs ==
    LET
        cIgnore == <<"/", "/", " ">> \o Lit.tsIgnore
        cNote == <<"/", "/", " ", "n", "o", "t", "e">>
        cBlockIgnore == <<"/", "*", " ">> \o Lit.tsIgnore \o <<" ", "*", "/">>
    IN
    { <<<<>>, <<cIgnore>>>>, <<<<cIgnore>>, <<cNote>>>>, <<<<cNote, cIgnore>>, <<>>>>,
      <<<<cIgnore, cNote>>, <<>>>>, <<<<cBlockIgnore>>, <<>>>>, <<<<cNote>>, <<cIgnore>>>>,
      <<<<>>, <<<<"/", "/">> \o Lit.tsIgnore>>>>,
      <<<<>>, <<<<"/", "/", " ", "t", "s", " ", "i", "g", "n", "o", "r", "e">>>>>>,
      <<<<>>, <<<<"/", "*", " ">> \o Lit.tsIgnore \o <<"*", "/">>>>>>,
      <<<<<<"/", "*", " ", "n", "o", "t", "e", "\n", " ", "*", " ">> \o Lit.tsIgnore
              \o <<"\n", " ", "*", "/">>>>, <<>>>> }

EmbeddedTypes ==
    { Ident(Nm.Base), StarExpr(Ident(Nm.Base)), Ident(Nm.A), Ident(Nm.T), Ident(Nm.Zed), timeTime,
      Ident(Nm.Mid), StarExpr(Ident(Nm.Mid)), StarExpr(Ident(Nm.T)), StarExpr(timeTime),
      StarExpr(Ident(Nm.Zed)), IndexExpr }

\* The identifiers the language predeclares and basicTypeMap lists.
BuiltinNames ==
    {Lit.string, Lit.bool, Lit.byte, Lit.rune, Lit.int, Lit.int8, Lit.int16, Lit.int32,
     Lit.int64, Lit.uint, Lit.uint8, Lit.uint16, Lit.uint32, Lit.uint64, Lit.uintptr,
     Lit.float32, Lit.float64, Lit.complex64, Lit.complex128, Lit.error, Lit.any}

SampleFields ==
    LET
        CoreTags ==
            { NilTag,
              StructTag(<<",">> \o Lit.omitempty, <<>>, <<>>),
              StructTag(<<>>, Lit.nullable, <<>>),
              StructTag(<<>>, <<>>, Lit.Uint8Array) }
        EmbeddedTags ==
            { NilTag, StructTag(<<>>, Lit.ignore, <<>>), StructTag(<<"-">>, <<>>, <<>>),
              StructTag(<<"n">>, <<>>, <<>>) }
        TagProbeTypes ==
            LeafTypes
            \cup { ArrayType(Ident(Lit.byte)), ArrayType(Ident(Lit.uint8)),
                   StarExpr(ArrayType(Ident(Lit.byte))), ArrayType(ArrayType(Ident(Lit.byte))),
                   MapType(Ident(Lit.string), ArrayType(Ident(Lit.byte))),
                   ArrayType(Ident(Lit.int)), MapType(Ident(Lit.string), Ident(Lit.int)),
                   StarExpr(Ident(Lit.int)), StarExpr(jsonRawMessage), ArrayType(jsonRawMessage) }
    IN
    { Field(<<Nm.F>>, e, t, <<>>, <<>>) : e \in TypeExprs(MaxDepth), t \in CoreTags }
    \cup { Field(<<Nm.F>>, e, t, <<>>, <<>>) : e \in TagProbeTypes, t \in AllTags }
    \cup { Field(<<Nm.F>>, e, t, c[1], c[2]) :
             e \in {Ident(Lit.int), ArrayType(Ident(Lit.byte))},
             t \in {NilTag, StructTag(<<>>, Lit.nullable, <<>>),
                    StructTag(<<>>, <<>>, Lit.Uint8Array), StructTag(<<"n">>, <<>>, <<>>)},
             c \in CommentPairs }
    \cup { Field(<<>>, e, t, <<>>, <<>>) : e \in EmbeddedTypes, t \in EmbeddedTags }
    \cup { Field(<<Nm.F>>, Ident(n), t, <<>>, <<>>) :
             n \in BuiltinNames \cup {Nm.T, Nm.Base, Lit.Time},
             t \in {NilTag, StructTag(<<>>, Lit.nullable, Lit.number)} }
    \cup { Field(<<<<"a">>, <<"b">>>>, Ident(Lit.int), t, <<>>, <<>>) :
             t \in {NilTag, StructTag(<<>>, Lit.ignore, <<>>)} }

\* ------------------------------------------------------------------------
\* The sources Generate is run on.

\* type IDs []int
typeIDs == TypeSpec(<<"I", "D", "s">>, ArrayType(Ident(Lit.int)), <<>>)

\* type B struct { X map[string]int }
typeB ==
    TypeSpec(<<"B">>,
             StructType(<<plainField(<<"X">>, MapType(Ident(Lit.string), Ident(Lit.int)))>>),
             <<>>)

\* The contents the source directory can have.
SourceDirs ==
    LET
        idField == plainField(<<"I", "D">>, Ident(Lit.int))
        nUser == <<"U", "s", "e", "r">>
        \* // User doc
        \* type User struct { ID int; Name string `json:"name"`; Tags []string }
        typeUser ==
            TypeSpec(nUser,
                     StructType(<<idField,
                                  Field(<<<<"N", "a", "m", "e">>>>, Ident(Lit.string),
                                        StructTag(<<"n", "a", "m", "e">>, <<>>, <<>>), <<>>, <<>>),
                                  plainField(<<"T", "a", "g", "s">>, ArrayType(Ident(Lit.string)))>>),
                     <<>>)
        aGo ==
            SourceFile(Nm.aGo, <<"a">>,
                       <<GenDecl(<<<<"/", "/", " ", "U", "s", "e", "r", " ", "d", "o", "c">>>>, <<typeUser>>),
                         GenDecl(<<>>, <<typeIDs>>)>>, FALSE)
        bGo == SourceFile(<<"b", ".", "g", "o">>, <<"b">>, <<GenDecl(<<>>, <<typeB>>)>>, FALSE)
        \* x.go: package a_test
        xGo ==
            SourceFile(<<"x", ".", "g", "o">>, <<"a">> \o GenLit.test,
                       <<GenDecl(<<>>, <<TypeSpec(<<"X">>, Ident(Lit.int), <<>>)>>)>>, FALSE)
        \* y.go: package b_test
        yGo ==
            SourceFile(<<"y", ".", "g", "o">>, <<"b">> \o GenLit.test,
                       <<GenDecl(<<>>, <<TypeSpec(<<"Y">>, Ident(Lit.string), <<>>)>>)>>, FALSE)
        \* a_test.go: never parsed
        aTestGo ==
            SourceFile(<<"a">> \o GenLit.testGo, <<"a">>,
                       <<GenDecl(<<>>, <<TypeSpec(<<"H">>, Ident(Lit.int), <<>>)>>)>>, FALSE)
        \* a.go with a syntax error
        aGoBad == SourceFile(Nm.aGo, <<"a">>, <<>>, TRUE)
        \* a.go without type declarations
        aGoNoTypes == SourceFile(Nm.aGo, <<"a">>, <<>>, FALSE)
        \* type A struct { *A }
        aGoSelf ==
            SourceFile(Nm.aGo, <<"a">>,
                       <<GenDecl(<<>>, <<TypeSpec(Nm.A, StructType(<<Field(<<>>, StarExpr(Ident(Nm.A)),
                                                                         NilTag, <<>>, <<>>)>>), <<>>)>>)>>,
                       FALSE)
        \* type A struct { *B; ID int }
        \* type B struct { *A }
        aGoMutual ==
            SourceFile(Nm.aGo, <<"a">>,
                       <<GenDecl(<<>>, <<TypeSpec(Nm.A, StructType(<<Field(<<>>, StarExpr(Ident(<<"B">>)),
                                                                         NilTag, <<>>, <<>>),
                                                                   idField>>), <<>>)>>),
                         GenDecl(<<>>, <<TypeSpec(<<"B">>, StructType(<<Field(<<>>, StarExpr(Ident(Nm.A)),
                                                                              NilTag, <<>>, <<>>)>>),
                                                  <<>>)>>)>>,
                       FALSE)
        \* type Base struct { ID int }
        \* type A struct { Base; M []struct { *Base }; Next *A }
        aGoEmbed ==
            SourceFile(Nm.aGo, <<"a">>,
                       <<GenDecl(<<>>, <<TypeSpec(Nm.Base, StructType(<<idField>>), <<>>)>>),
                         GenDecl(<<>>,
                            <<TypeSpec(Nm.A,
                                StructType(<<Field(<<>>, Ident(Nm.Base), NilTag, <<>>, <<>>),
                                             plainField(<<"M">>,
                                                ArrayType(StructType(<<Field(<<>>, StarExpr(Ident(Nm.Base)),
                                                                             NilTag, <<>>, <<>>)>>))),
                                             plainField(<<"N", "e", "x", "t">>, StarExpr(Ident(Nm.A)))>>),
                                <<>>)>>)>>,
                       FALSE)
        \* // ts ignore //
        \* type A struct { ID int }
        \* type (
        \*     // note
        \*     // ts ignore //
        \*     T int
        \*     // ts ignore // no
        \*     Zed string
        \* )
        aGoIgnore ==
            SourceFile(Nm.aGo, <<"a">>,
                       <<GenDecl(<<<<"/", "/", " ">> \o GenLit.tsIgnore>>,
                                 <<TypeSpec(Nm.A, StructType(<<idField>>), <<>>)>>),
                         GenDecl(<<>>,
                            <<TypeSpec(Nm.T, Ident(Lit.int),
                                       <<<<"/", "/", " ", "n", "o", "t", "e">>,
                                         <<"/", "/", " ">> \o GenLit.tsIgnore>>),
                              TypeSpec(Nm.Zed, Ident(Lit.string),
                                       <<<<"/", "/", " ">> \o GenLit.tsIgnore
                                           \o <<" ", "n", "o">>>>)>>)>>,
                       FALSE)
    IN
    { {aGo}, {aGo, bGo}, {aGo, xGo, aTestGo}, {xGo, yGo}, {aTestGo}, {aGoBad},
      {aGoNoTypes}, {aGoSelf}, {aGoMutual}, {aGoEmbed}, {aGoIgnore} }

\* What packages.Load resolves: the import paths pk and m/pk, packages of one file
\* with the types B and IDs and `type R struct { L IDs; P *B }`.
GoPackages ==
    [imp \in {Nm.pk, <<"m", "/">> \o Nm.pk} |->
        [Name |-> Nm.pk, PkgPath |-> imp,
         GoFiles |-> {SourceFile(<<"b", ".", "g", "o">>, Nm.pk,
                                 <<GenDecl(<<>>, <<typeB>>), GenDecl(<<>>, <<typeIDs>>),
                                   GenDecl(<<>>,
                                      <<TypeSpec(<<"R">>,
                                           StructType(<<plainField(<<"L">>, Ident(typeIDs.Name)),
                                                        plainField(<<"P">>,
                                                            StarExpr(Ident(typeB.Name)))>>),
                                           <<>>)>>)>>,
                                 FALSE)}]]

Inputs ==
    { <<>>,
      <<".", "/", "n", "x">>,
      <<".", "/", "s">>,
      <<".", "/", "s", "/">> \o Nm.aGo,
      <<".", "/", "s", "/", "n", "x", ".", "g", "o">>,
      Nm.pk,
      Nm.pk \o <<".", "B">>,
      Nm.pk \o <<".", "R">>,
      Nm.pk \o <<".", "N", "o">>,
      <<"m", "/">> \o Nm.pk,
      <<"b", "a", "d">> }

Outputs == { <<>>, Nm.o, Nm.f, Nm.fU }

FsPaths ==
    LET
        PkgNames == { <<"a">>, <<"b">>, <<"a">> \o GenLit.test, <<"b">> \o GenLit.test, Nm.pk }
    IN
    { Nm.p, Nm.o, Nm.keep, Nm.f, Nm.fU }
    \cup { filepathJoin(Nm.o, n \o GenLit.dotDTS) : n \in PkgNames }

emptyFs == [q \in FsPaths |-> Absent]

\* The file systems Generate can find.
InitialFs ==
    { emptyFs,
      [emptyFs EXCEPT ![Nm.p] = File(Nm.old)],
      [emptyFs EXCEPT ![Nm.p] = Dir],
      [emptyFs EXCEPT ![Nm.p] = Dir, ![Nm.o] = Dir],
      [emptyFs EXCEPT ![Nm.p] = Dir, ![Nm.o] = Dir, ![Nm.keep] = File(Nm.old)],
      [emptyFs EXCEPT ![Nm.p] = Dir, ![Nm.o] = File(Nm.old)],
      [emptyFs EXCEPT ![Nm.p] = Dir, ![Nm.f] = File(Nm.old)],
      [emptyFs EXCEPT ![Nm.p] = Dir, ![Nm.f] = Dir] }

\* Bound on the number of times Generate is called on the same arguments.
MaxRuns == 2

\* ------------------------------------------------------------------------
\* State.
\*   pc, input, output, world, fs, fs0, createdDir, loadRes, results, err, run, prev:
\*       a process calling Generate(input, output): its position, its arguments,
\*       the sources and resolvable packages (world), the file system under the
\*       output target now (fs) and when the call began (fs0), Generate's locals,
\*       the error returned, the number of the call, and how the previous call
\*       left things;
\*   fld, lines, alias, mpc: a field handed to the struct emitter and type mapper,
\*       and what they returned.

VARIABLES pc, input, output, world, fs, fs0, createdDir, loadRes, results, err, run, prev,
          fld, lines, alias, mpc,
          wiz, proj, rtr

genVars == <<pc, input, output, world, fs, fs0, createdDir, loadRes, results, err, run, prev>>

mapVars == <<fld, lines, alias, mpc>>

\* The interactive wizard, the `gogen new` command and the `gogen router` command.
cliVars == <<wiz, proj, rtr>>

vars == <<pc, input, output, world, fs, fs0, createdDir, loadRes, results, err, run, prev,
          fld, lines, alias, mpc, wiz, proj, rtr>>

\* No Generate call is in progress.
GenIdle ==
    /\ pc = "off"
    /\ input = <<>>
    /\ output = <<>>
    /\ world = [files |-> {}, packages |-> GoPackages]
    /\ fs = emptyFs
    /\ fs0 = emptyFs
    /\ createdDir = FALSE
    /\ loadRes = <<>>
    /\ results = <<>>
    /\ err = "nil"
    /\ run = 1
    /\ prev = [fs |-> emptyFs, err |-> "none"]

\* No command of the CLI is running.
CliIdle ==
    /\ wiz = [pc |-> "off"]
    /\ proj = [pc |-> "off"]
    /\ rtr = [pc |-> "off"]

\* No field is being mapped.
MapIdle ==
    /\ fld = plainField(Nm.F, Ident(Lit.int))
    /\ lines = <<>>
    /\ alias = <<>>
    /\ mpc = "off"

GenInit ==
    /\ pc = "start"
    /\ input \in Inputs
    /\ output \in Outputs
    /\ world \in {[files |-> d, packages |-> GoPackages] : d \in SourceDirs}
    /\ fs \in InitialFs
    /\ fs0 = fs
    /\ createdDir = FALSE
    /\ loadRes = <<>>
    /\ results = <<>>
    /\ err = "nil"
    /\ run = 1
    /\ prev = [fs |-> fs, err |-> "none"]

\* Generate returns e.
return(e) ==
    /\ err' = e
    /\ pc' = "done"

\* The checks of the arguments.
Validate ==
    /\ pc = "start"
    /\ IF input = <<>>
       THEN return("input is required, provide a go package path, local dir/file, or package.Type")
       ELSE IF output = <<>>
       THEN return("output is required, provide a .d.ts file or a directory")
       ELSE pc' = "prepare" /\ err' = err
    /\ UNCHANGED <<input, output, world, fs, fs0, createdDir, loadRes, results, run, prev>>
    /\ UNCHANGED <<mapVars, cliVars>>

\* "Prepare output target".
Prepare ==
    /\ pc = "prepare"
    /\ IF isSingleFile(output)
       THEN LET r == MkdirAll(fs, filepathDir(output))
            IN  /\ fs' = r.fs
                /\ createdDir' = FALSE
                /\ IF r.ok THEN pc' = "load" /\ err' = err
                   ELSE return("failed to create output directory")
       ELSE LET st == checkDirStatus(fs, output)
                cleaned == MkdirAll(RemoveAll(fs, output), output)
                made == MkdirAll(fs, output)
            IN  IF st.err
                THEN /\ return("failed to check output directory status")
                     /\ UNCHANGED <<fs, createdDir>>
                ELSE IF st.exists /\ st.notEmpty
                THEN /\ fs' = cleaned.fs
                     /\ createdDir' = cleaned.ok
                     /\ IF cleaned.ok THEN pc' = "load" /\ err' = err
                        ELSE return("failed to create output directory after cleaning")
                ELSE IF st.exists
                THEN /\ createdDir' = TRUE
                     /\ pc' = "load"
                     /\ UNCHANGED <<fs, err>>
                ELSE /\ fs' = made.fs
                     /\ createdDir' = made.ok
                     /\ IF made.ok THEN pc' = "load" /\ err' = err
                        ELSE return("failed to create output directory")
    /\ UNCHANGED <<input, output, world, fs0, loadRes, results, run, prev>>
    /\ UNCHANGED <<mapVars, cliVars>>

\* "Load package(s) via loader", with the rollback when nothing was loaded.
Load ==
    /\ pc = "load"
    /\ \E r \in loadFromInput(world, input) :
          IF r.err # "nil"
          THEN /\ fs' = rollbackOutput(fs, output, isSingleFile(output), createdDir)
               /\ return(r.err)
               /\ UNCHANGED loadRes
          ELSE IF Len(r.pkgs) = 0
          THEN /\ fs' = rollbackOutput(fs, output, isSingleFile(output), createdDir)
               /\ return("no packages found for the given input")
               /\ UNCHANGED loadRes
          ELSE /\ loadRes' = r.pkgs
               /\ pc' = "emit"
               /\ UNCHANGED <<fs, err>>
    /\ UNCHANGED <<input, output, world, fs0, createdDir, results, run, prev>>
    /\ UNCHANGED <<mapVars, cliVars>>

\* "Generate for each package". A stack overflow is fatal: the process dies
\* inside Generate, which returns nothing.
Emit ==
    /\ pc = "emit"
    /\ IF \E i \in 1..Len(loadRes) : emitOverflows(loadRes[i])
       THEN /\ pc' = "fatal"
            /\ UNCHANGED results
       ELSE /\ results' = [i \in 1..Len(loadRes) |-> generatePackage(loadRes[i])]
            /\ pc' = "write"
    /\ UNCHANGED <<input, output, world, fs, fs0, createdDir, loadRes, err, run, prev>>
    /\ UNCHANGED <<mapVars, cliVars>>

\* "Write outputs", with the rollback of directory mode.
Write ==
    LET
        \* How a call of os.WriteFile can end: it succeeds; it fails to open the file
        \* (nothing changes); or it fails after the file was created and truncated,
        \* before the data was written out (for one, on a full disk).
        WriteOutcomes == {"ok", "open", "partial"}
    IN
    /\ pc = "write"
    /\ \E w \in WriteOutcomes :
          IF isSingleFile(output)
          THEN LET r == WriteFile(fs, output, singleFileContent(results, 1), w)
               IN  /\ fs' = r.fs
                   /\ return(IF r.ok THEN "nil" ELSE "failed to write output file")
          ELSE LET r == writePackagesToDir(fs, output, results, 1, w)
               IN  /\ fs' = IF r.ok THEN r.fs ELSE RemoveAll(r.fs, output)
                   /\ return(IF r.ok THEN "nil" ELSE "failed to write package file")
    /\ UNCHANGED <<input, output, world, fs0, createdDir, loadRes, results, run, prev>>
    /\ UNCHANGED <<mapVars, cliVars>>

\* Generate is called again, on the same arguments and sources, after a call
\* that succeeded.
Rerun ==
    /\ pc = "done"
    /\ err = "nil"
    /\ run < MaxRuns
    /\ prev' = [fs |-> fs, err |-> err]
    /\ run' = run + 1
    /\ fs0' = fs
    /\ pc' = "start"
    /\ createdDir' = FALSE
    /\ loadRes' = <<>>
    /\ results' = <<>>
    /\ UNCHANGED <<input, output, world, fs, err>>
    /\ UNCHANGED <<mapVars, cliVars>>

Init == GenInit /\ MapIdle /\ CliIdle

Next == Validate \/ Prepare \/ Load \/ Emit \/ Write \/ Rerun

Spec == Init /\ [][Next]_vars

MapInit ==
    /\ GenIdle
    /\ CliIdle
    /\ fld \in SampleFields
    /\ lines = <<>>
    /\ alias = <<>>
    /\ mpc = "start"

\* collectStructFields on the struct type whose only field is fld.
FieldsStep ==
    /\ mpc = "start"
    /\ lines' = collectStructFields(SampleContext, StructType(<<fld>>))
    /\ mpc' = "fields"
    /\ UNCHANGED <<fld, alias>>
    /\ UNCHANGED <<genVars, cliVars>>

\* Generate's alias branch on fld's type: export type Name = <tsType>.
AliasStep ==
    /\ mpc = "start"
    /\ Len(fld.Names) > 0
    /\ alias' = exprToTSType(SampleContext, fld.Type, fieldContext)
    /\ mpc' = "alias"
    /\ UNCHANGED <<fld, lines>>
    /\ UNCHANGED <<genVars, cliVars>>

MapNext == FieldsStep \/ AliasStep

SpecMap == MapInit /\ [][MapNext]_vars

\* ------------------------------------------------------------------------
\* internal/wizard: the interactive flow of RunInteractiveWithPrompter.
\* Strings of the wizard are TLA+ strings; a *ProjectConfig is <<>> (nil) or <<cfg>>.

\* The zero value of ProjectConfig.
ProjectConfig ==
    [Name |-> "", Module |-> "", Template |-> "", Router |-> "", Frontend |-> "",
     TypeScript |-> FALSE, Tailwind |-> FALSE, Runtime |-> "", Editor |-> "",
     Docker |-> FALSE, Dir |-> ""]

\* What one call of the Prompter can return: one of vals with a nil error, or the
\* zero value with terminal.InterruptErr or with another error.
Replies(vals, zero) ==
    {[val |-> v, err |-> "nil"] : v \in vals}
        \cup {[val |-> zero, err |-> e] : e \in {"interrupt", "EOF"}}

\* handleInterrupt without the mapping of the interrupt error.
handleInterruptRaw(e) == e

handleInterrupt(e) == IF e = "interrupt" THEN "aborted by user" ELSE e

\* The wizard after the prompter was called with label and answered r.
prompted(w, label, r) ==
    [w EXCEPT !.asked = Append(@, [label |-> label, val |-> r.val, err |-> r.err])]

\* A return that hands out the config whatever the outcome.
wizReturnConfig(w, c, e) == [w EXCEPT !.pc = "done", !.res = [cfg |-> <<w.cfg>>, err |-> e]]

\* RunInteractiveWithPrompter returns (c, e).
wizReturn(w, c, e) == [w EXCEPT !.pc = "done", !.res = [cfg |-> c, err |-> e]]

\* generateCommand that appends --ts for every TypeScript frontend.
generateCommandAnyTS(c) ==
    LET opt(b, s) == IF b THEN s ELSE <<>>
        args == <<"gogen", "new", "--name", c.Name, "--template", c.Template>>
                  \o opt(c.Router # "", <<"--router", c.Router>>)
                  \o opt(c.Frontend # "", <<"--frontend", c.Frontend, "--runtime", c.Runtime>>)
                  \o opt(c.Frontend # "" /\ c.TypeScript, <<"--ts">>)
        join[i \in 1..Len(args)] == IF i = 1 THEN args[1] ELSE join[i - 1] \o " " \o args[i]
    IN  join[Len(args)]

generateCommand(c) ==
    LET opt(b, s) == IF b THEN s ELSE <<>>
        args == <<"gogen", "new", "--name", c.Name, "--template", c.Template>>
                  \o opt(c.Router # "", <<"--router", c.Router>>)
                  \o opt(c.Frontend # "",
                         <<"--frontend", c.Frontend, "--runtime", c.Runtime>>
                           \o opt(c.TypeScript /\ c.Frontend # "angular", <<"--ts">>)
                           \o opt(c.Tailwind, <<"--tailwind">>))
                  \o opt(c.Editor # "", <<"--editor", c.Editor>>)
                  \o opt(c.Docker, <<"--docker">>)
                  \o opt(c.Module # "", <<"--module", c.Module>>)
        \* strings.Join(args, " ")
        join[i \in 1..Len(args)] == IF i = 1 THEN args[1] ELSE join[i - 1] \o " " \o args[i]
    IN  join[Len(args)]

\* The text printSummary prints.
printSummary(c) ==
    LET v(b) == IF b THEN "true" ELSE "false"
        opt(b, s) == IF b THEN s ELSE ""
    IN  "\nConfiguration Summary:\n"
          \o "  Name: " \o c.Name \o "\n"
          \o "  Template: " \o c.Template \o "\n"
          \o opt(c.Router # "", "  Router: " \o c.Router \o "\n")
          \o opt(c.Frontend # "",
                 "  Frontend: " \o c.Frontend \o "\n"
                   \o "  TypeScript: " \o v(c.TypeScript) \o "\n"
                   \o "  Tailwind: " \o v(c.Tailwind) \o "\n"
                   \o "  Runtime: " \o c.Runtime \o "\n")
          \o opt(c.Editor # "", "  Editor: " \o c.Editor \o "\n")
          \o "  Docker: " \o v(c.Docker) \o "\n"
          \o opt(c.Module # "", "  Module: " \o c.Module \o "\n")
          \o "\nGenerated Command:\n"
          \o "  " \o generateCommand(c) \o "\n"

\* RunInteractiveWithPrompter is entered with a fresh config.
WizInit ==
    /\ GenIdle
    /\ MapIdle
    /\ wiz = [pc |-> "name", cfg |-> ProjectConfig, asked |-> <<>>, cmd |-> "", out |-> "",
              res |-> [cfg |-> <<>>, err |-> "none"]]
    /\ proj = [pc |-> "off"]
    /\ rtr = [pc |-> "off"]

AskProjectName ==
    /\ wiz.pc = "name"
    /\ \E r \in Replies({"app", "my-app"}, "") :
          LET w == prompted(wiz, "Project name:", r)
          IN  wiz' = IF r.err # "nil"
                     THEN wizReturn(w, <<>>, handleInterrupt(r.err))
                     ELSE [w EXCEPT !.cfg.Name = r.val, !.cfg.Dir = r.val, !.pc = "template"]
    /\ UNCHANGED <<genVars, mapVars, proj, rtr>>

AskTemplate ==
    /\ wiz.pc = "template"
    /\ \E r \in Replies({"api", "web", "cli"}, "") :
          LET w == prompted(wiz, "Choose a template:", r)
          IN  wiz' = IF r.err # "nil"
                     THEN wizReturn(w, <<>>, handleInterrupt(r.err))
                     ELSE [w EXCEPT !.cfg.Template = r.val, !.pc = "router"]
    /\ UNCHANGED <<genVars, mapVars, proj, rtr>>

\* askRouter that asks whatever the template is.
AskRouterAlways ==
    /\ wiz.pc = "router"
    /\ \E r \in Replies({"chi"}, "") :
          LET w == prompted(wiz, "Select a router:", r)
          IN  wiz' = IF r.err # "nil"
                     THEN wizReturn(w, <<>>, handleInterrupt(r.err))
                     ELSE [w EXCEPT !.cfg.Router = r.val, !.pc = "frontend"]
    /\ UNCHANGED <<genVars, mapVars, proj, rtr>>

AskRouter ==
    /\ wiz.pc = "router"
    /\ IF wiz.cfg.Template \in {"api", "web"}
       THEN \E r \in Replies({"stdlib", "chi", "gorilla", "httprouter"}, "") :
               LET w == prompted(wiz, "Select a router:", r)
               IN  wiz' = IF r.err # "nil"
                          THEN wizReturn(w, <<>>, handleInterrupt(r.err))
                          ELSE [w EXCEPT !.cfg.Router = r.val, !.pc = "frontend"]
       ELSE wiz' = [wiz EXCEPT !.pc = "frontend"]
    /\ UNCHANGED <<genVars, mapVars, proj, rtr>>

AskFrontendOptions ==
    /\ wiz.pc = "frontend"
    /\ IF wiz.cfg.Template # "web"
       THEN wiz' = [wiz EXCEPT !.pc = "editor"]
       ELSE \E r1 \in Replies(BOOLEAN, FALSE),
               r2 \in Replies({"react", "vue", "svelte", "solidjs", "angular"}, ""),
               r3 \in Replies({"node", "bun"}, ""),
               r4 \in Replies(BOOLEAN, FALSE),
               r5 \in Replies(BOOLEAN, FALSE) :
               LET w1 == prompted(wiz, "Add a frontend framework?", r1)
                   w2 == [prompted(w1, "Choose a frontend:", r2) EXCEPT !.cfg.Frontend = r2.val]
                   w3 == [prompted(w2, "JS runtime:", r3) EXCEPT !.cfg.Runtime = r3.val]
                   w4 == IF w3.cfg.Frontend # "angular"
                         THEN [prompted(w3, "Use TypeScript?", r4)
                                 EXCEPT !.cfg.TypeScript = r4.val]
                         ELSE [w3 EXCEPT !.cfg.TypeScript = TRUE]
                   w5 == [prompted(w4, "Add Tailwind CSS?", r5) EXCEPT !.cfg.Tailwind = r5.val]
                   fail(w, r) == wizReturn(w, <<>>, handleInterrupt(r.err))
               IN  wiz' =
                     IF r1.err # "nil" THEN fail(w1, r1)
                     ELSE IF ~r1.val THEN [w1 EXCEPT !.pc = "editor"]
                     ELSE IF r2.err # "nil" THEN fail(w2, r2)
                     ELSE IF r3.err # "nil" THEN fail(w3, r3)
                     ELSE IF w3.cfg.Frontend # "angular" /\ r4.err # "nil" THEN fail(w4, r4)
                     ELSE IF r5.err # "nil" THEN fail(w5, r5)
                     ELSE [w5 EXCEPT !.pc = "editor"]
    /\ UNCHANGED <<genVars, mapVars, proj, rtr>>

AskEditor ==
    /\ wiz.pc = "editor"
    /\ IF wiz.cfg.Template = "cli"
       THEN wiz' = [wiz EXCEPT !.pc = "docker"]
       ELSE \E r1 \in Replies(BOOLEAN, FALSE),
               r2 \in Replies({"cursor", "vscode", "jetbrains"}, "") :
               LET w1 == prompted(wiz, "Add editor AI template (cursor/vscode/jetbrains)?", r1)
                   w2 == prompted(w1, "Editor (cursor/vscode/jetbrains):", r2)
               IN  wiz' =
                     IF r1.err # "nil" THEN wizReturn(w1, <<>>, handleInterrupt(r1.err))
                     ELSE IF ~r1.val THEN [w1 EXCEPT !.pc = "docker"]
                     ELSE IF r2.err # "nil" THEN wizReturn(w2, <<>>, handleInterrupt(r2.err))
                     ELSE [w2 EXCEPT !.cfg.Editor = r2.val, !.pc = "docker"]
    /\ UNCHANGED <<genVars, mapVars, proj, rtr>>

AskDocker ==
    /\ wiz.pc = "docker"
    /\ \E r \in Replies(BOOLEAN, FALSE) :
          LET w == prompted(wiz, "Add Docker support?", r)
          IN  wiz' = IF r.err # "nil"
                     THEN wizReturn(w, <<>>, handleInterrupt(r.err))
                     ELSE [w EXCEPT !.cfg.Docker = r.val, !.pc = "module"]
    /\ UNCHANGED <<genVars, mapVars, proj, rtr>>

AskModule ==
    /\ wiz.pc = "module"
    /\ \E r1 \in Replies(BOOLEAN, FALSE),
          r2 \in Replies({"github.com/user/" \o wiz.cfg.Name}, "") :
          LET w1 == prompted(wiz, "Specify a custom Go module path?", r1)
              w2 == prompted(w1, "Module path (e.g. github.com/user/" \o wiz.cfg.Name \o "):", r2)
          IN  wiz' =
                IF r1.err # "nil" THEN wizReturn(w1, <<>>, handleInterrupt(r1.err))
                ELSE IF ~r1.val THEN [w1 EXCEPT !.pc = "summary"]
                ELSE IF r2.err # "nil" THEN wizReturn(w2, <<>>, handleInterrupt(r2.err))
                ELSE [w2 EXCEPT !.cfg.Module = r2.val, !.pc = "summary"]
    /\ UNCHANGED <<genVars, mapVars, proj, rtr>>

\* printSummary(cfg) writes the summary to stdout; cmd is the command that
\* generateCommand returned for it.
PrintSummary ==
    /\ wiz.pc = "summary"
    /\ wiz' = [wiz EXCEPT !.cmd = generateCommand(wiz.cfg), !.out = printSummary(wiz.cfg),
                          !.pc = "proceed"]
    /\ UNCHANGED <<genVars, mapVars, proj, rtr>>

\* The final confirmation and the return of RunInteractiveWithPrompter.
Proceed ==
    /\ wiz.pc = "proceed"
    /\ \E r \in Replies(BOOLEAN, FALSE) :
          LET w == prompted(wiz, "Proceed with generation?", r)
          IN  wiz' = IF r.err # "nil"
                     THEN wizReturn(w, <<>>, IF r.err = "interrupt" THEN "aborted by user"
                                             ELSE r.err)
                     ELSE IF ~r.val THEN wizReturn(w, <<>>, "aborted by user")
                     ELSE wizReturn(w, <<w.cfg>>, "nil")
    /\ UNCHANGED <<genVars, mapVars, proj, rtr>>

WizNext ==
    \/ AskProjectName \/ AskTemplate \/ AskRouter \/ AskFrontendOptions \/ AskEditor
    \/ AskDocker \/ AskModule \/ PrintSummary \/ Proceed

SpecWiz == WizInit /\ [][WizNext]_vars

\* printSummary, and with it generateCommand, applied to any ProjectConfig.
CmdInit ==
    /\ GenIdle
    /\ MapIdle
    /\ \E c \in [Name : {"app"}, Module : {"", "github.com/user/app"},
                 Template : {"api", "web", "cli"}, Router : {"", "chi"},
                 Frontend : {"", "react", "angular"}, TypeScript : BOOLEAN,
                 Tailwind : BOOLEAN, Runtime : {"", "bun"}, Editor : {"", "cursor"},
                 Docker : BOOLEAN, Dir : {"app"}] :
          wiz = [pc |-> "summary", cfg |-> c, asked |-> <<>>, cmd |-> "", out |-> "",
                 res |-> [cfg |-> <<>>, err |-> "none"]]
    /\ proj = [pc |-> "off"]
    /\ rtr = [pc |-> "off"]

SpecCmd == CmdInit /\ [][PrintSummary]_vars

\* ------------------------------------------------------------------------
\* cmd/new.go: `gogen new`. A path is [abs, parts]: its components and whether
\* it starts at the root; the directories and files on disk are named by the
\* components of their absolute path.

\* The absolute path the operating system resolves p to in the working directory wd.
Resolve(wd, p) == IF p.abs THEN p.parts ELSE wd \o p.parts

validate(c) ==
    IF c.FrontendFramework # "" /\ c.Template # "web"
    THEN "frontend flag is only applicable when template is 'web'"
    ELSE IF c.UseTypeScript /\ c.FrontendFramework = ""
    THEN "TypeScript flag is only applicable when frontend is specified"
    ELSE IF c.UseTailwind /\ c.FrontendFramework = ""
    THEN "tailwind flag is only applicable when frontend is specified"
    ELSE "nil"

\* The command is started in /w, next to an existing directory /w/old, with its flags parsed.
NewInit ==
    /\ GenIdle
    /\ MapIdle
    /\ wiz = [pc |-> "off"]
    /\ rtr = [pc |-> "off"]
    /\ \E fl \in [name : {"app"},
                  module : {"", "github.com/user/app"},
                  template : {"api", "cli", "web", "lib"},
                  frontend : {"", "react"},
                  dir : {[abs |-> FALSE, parts |-> <<>>],
                         [abs |-> FALSE, parts |-> <<"out">>],
                         [abs |-> FALSE, parts |-> <<"old">>],
                         [abs |-> TRUE, parts |-> <<"w", "abs">>]},
                  ts : BOOLEAN, tailwind : BOOLEAN, runtimeSet : BOOLEAN] :
          proj = [pc |-> "action", flags |-> fl, creator |-> <<>>,
                  cwd |-> <<"w">>, originalDir |-> <<>>,
                  dirs |-> {<<>>, <<"w">>, <<"w", "old">>}, files |-> <<>>,
                  trace |-> <<>>, err |-> "none"]

\* The Action of NewCommand up to the end of validate.
NewAction ==
    /\ proj.pc = "action"
    /\ LET fl == proj.flags
           \* NewProjectCreator
           c == [Name |-> fl.name, ModuleName |-> fl.module, Template |-> fl.template,
                 FrontendFramework |-> fl.frontend,
                 DirName |-> IF fl.dir.parts = <<>>
                             THEN [abs |-> FALSE, parts |-> <<fl.name>>] ELSE fl.dir,
                 UseTypeScript |-> fl.ts, UseTailwind |-> fl.tailwind]
       IN  proj' =
             IF fl.runtimeSet /\ fl.template # "web"
             THEN [proj EXCEPT !.pc = "done",
                               !.err = "runtime flag is only applicable when template is 'web'"]
             ELSE IF validate(c) # "nil"
             THEN [proj EXCEPT !.pc = "done", !.creator = <<c>>, !.err = validate(c)]
             ELSE [proj EXCEPT !.pc = "mkdir", !.creator = <<c>>]
    /\ UNCHANGED <<genVars, mapVars, wiz, rtr>>

\* os.Mkdir(pc.DirName): the parent must be a directory and the name free.
CreateProjectDirectory ==
    /\ proj.pc = "mkdir"
    /\ LET d == Resolve(proj.cwd, proj.creator[1].DirName)
       IN  proj' =
             IF d \in proj.dirs \/ SubSeq(d, 1, Len(d) - 1) \notin proj.dirs
             THEN [proj EXCEPT !.pc = "done", !.err = "failed to create project directory"]
             ELSE [proj EXCEPT !.pc = "chdir", !.dirs = @ \cup {d},
                               !.trace = Append(@, [op |-> "mkdir", path |-> d, data |-> ""])]
    /\ UNCHANGED <<genVars, mapVars, wiz, rtr>>

\* os.Getwd and os.Chdir(pc.DirName); the cleanup is deferred to the return of execute.
ChangeToProjectDirectory ==
    /\ proj.pc = "chdir"
    /\ LET d == Resolve(proj.cwd, proj.creator[1].DirName)
       IN  proj' =
             IF d \notin proj.dirs
             THEN [proj EXCEPT !.pc = "done", !.err = "failed to change to project directory"]
             ELSE [proj EXCEPT !.pc = "gomod", !.originalDir = proj.cwd, !.cwd = d]
    /\ UNCHANGED <<genVars, mapVars, wiz, rtr>>

\* initializeGoModule; on an error execute returns and the cleanup changes back.
InitializeGoModule ==
    /\ proj.pc = "gomod"
    /\ LET c == proj.creator[1]
           moduleName == IF c.ModuleName # "" THEN c.ModuleName
                         ELSE IF c.Name # "" THEN c.Name
                         ELSE "my-go-module"
           \* filepath.Join(pc.DirName, "go.mod"), opened in the working directory
           f == Resolve(proj.cwd, [abs |-> c.DirName.abs,
                                   parts |-> c.DirName.parts \o <<"go.mod">>])
           \* constants.LatestGoVersion is defined outside the sources at hand
           data == "module " \o moduleName \o "\n\ngo " \o "LatestGoVersion"
       IN  proj' =
             IF c.Template = "web"
             THEN [proj EXCEPT !.pc = "files"]
             ELSE IF SubSeq(f, 1, Len(f) - 1) \notin proj.dirs \/ f \in proj.dirs
             THEN [proj EXCEPT !.pc = "done", !.cwd = proj.originalDir,
                               !.err = "failed to create go.mod file"]
             ELSE [proj EXCEPT !.pc = "files",
                               !.files = [p \in DOMAIN @ \cup {f} |-> IF p = f THEN data ELSE @[p]],
                               !.trace = Append(@, [op |-> "create", path |-> f, data |-> data])]
    /\ UNCHANGED <<genVars, mapVars, wiz, rtr>>

\* createProjectFiles to the return of execute. The generators write main.go (and
\* more) into the working directory, the api generator also its own go.mod, and
\* then run `go mod tidy`, which can fail.
CreateProjectFiles ==
    /\ proj.pc = "files"
    /\ \E tidy \in {"ok", "fail"} :
          LET c == proj.creator[1]
              main == proj.cwd \o <<"main.go">>
              mod == proj.cwd \o <<"go.mod">>
              \* setModuleName and the go.mod of createAPIProjectInDir
              apiMod == "module "
                          \o (IF c.ModuleName = "" THEN "github.com/" \o c.Name ELSE c.ModuleName)
                          \o "\n\ngo 1.21\n"
              written == IF c.Template = "api"
                         THEN <<[op |-> "create", path |-> main, data |-> "package main"],
                                [op |-> "create", path |-> mod, data |-> apiMod]>>
                         ELSE <<[op |-> "create", path |-> main, data |-> "package main"]>>
              new == {written[i].path : i \in 1..Len(written)}
          IN  proj' =
                IF c.Template \notin {"cli", "web", "api"}
                THEN [proj EXCEPT !.pc = "done", !.cwd = proj.originalDir,
                                  !.err = "failed to create project files"]
                ELSE [proj EXCEPT !.pc = "done", !.cwd = proj.originalDir,
                                  !.files = [p \in DOMAIN @ \cup new |->
                                                IF p = mod /\ mod \in new THEN apiMod
                                                ELSE IF p = main THEN "package main"
                                                ELSE @[p]],
                                  !.trace = @ \o written,
                                  !.err = IF tidy = "ok" THEN "nil"
                                          ELSE "failed to create project files"]
    /\ UNCHANGED <<genVars, mapVars, wiz, rtr>>

NewNext ==
    \/ NewAction \/ CreateProjectDirectory \/ ChangeToProjectDirectory
    \/ InitializeGoModule \/ CreateProjectFiles

SpecNew == NewInit /\ [][NewNext]_vars

\* ------------------------------------------------------------------------
\* cmd/router.go: `gogen router`. The files of the working directory are a
\* function from their names to their contents.

\* generateMainContent; setup is how stdlibtemplate.CreateRouterSetup ended.
generateMainContent(type, existingContent, setup) ==
    CASE type = "stdlib" -> IF setup # "ok" THEN "" ELSE "package main // http.ServeMux"
      [] type = "chi" -> "package main // chi"
      [] type = "gorilla" -> "package main // gorilla/mux"
      [] type = "httprouter" -> "package main // httprouter"
      [] OTHER -> existingContent

\* The command is started with its arguments parsed, in a directory that may hold
\* a main.go and earlier backups of it.
RouterInit ==
    /\ GenIdle
    /\ MapIdle
    /\ wiz = [pc |-> "off"]
    /\ proj = [pc |-> "off"]
    /\ \E args \in {<<>>, <<"stdlib">>, <<"chi">>, <<"gorilla">>, <<"httprouter">>, <<"echo">>},
          update \in BOOLEAN,
          names \in SUBSET {"main.go", "main.go.backup", "main.go.backup20260102150405"} :
          rtr = [pc |-> "action", args |-> args, update |-> update,
                 files |-> [n \in names |-> IF n = "main.go" THEN "package main // old"
                                            ELSE "package main // older"],
                 installed |-> FALSE, setup |-> "none", err |-> "none"]

\* The Action of RouterCommand and execute up to the end of installDependency.
RouterAction ==
    /\ rtr.pc = "action"
    /\ \E get \in {"ok", "fail"} :
          LET type == rtr.args[1]
              fails == type # "stdlib" /\ get = "fail"
              next == IF rtr.update THEN [rtr EXCEPT !.pc = "update", !.installed = TRUE]
                      ELSE [rtr EXCEPT !.pc = "done", !.installed = TRUE, !.err = "nil"]
          IN  rtr' =
                IF Len(rtr.args) = 0
                THEN [rtr EXCEPT !.pc = "done",
                         !.err = "router type is required. Usage: gogen router <router-type>"]
                ELSE IF type \notin {"stdlib", "chi", "gorilla", "httprouter"} \/ fails
                THEN [rtr EXCEPT !.pc = "done", !.err = "failed to install router dependency"]
                ELSE next
    /\ UNCHANGED <<genVars, mapVars, wiz, proj>>

\* The backup always goes to main.go.backup.
backupNameFixed(files) == "main.go.backup"

\* The name updateMainFile picks for the backup: main.go.backup, or that name
\* with the time appended when os.Stat finds the file.
backupName(files) ==
    IF "main.go.backup" \in DOMAIN files
    THEN "main.go.backup" \o "20260102150405"  \* time.Now().Format(...)
    ELSE "main.go.backup"

\* updateMainFile and the return of execute. A *os.File is <<>> (nil) or one
\* record with the open mode and the file offset; os.Open opens for reading only.
UpdateMainFile ==
    /\ rtr.pc = "update"
    /\ \E setup \in {"ok", "fail"}, create \in {"ok", "fail"} :
          LET type == rtr.args[1]
              exists == "main.go" \in DOMAIN rtr.files
              put(fs_, n, data) == [m \in DOMAIN fs_ \cup {n} |-> IF m = n THEN data ELSE fs_[m]]
              \* os.Open("main.go")
              mainFile == IF exists THEN <<[write |-> FALSE, off |-> 0]>> ELSE <<>>
              \* the rest of main.go behind the offset (0 or the end of the file)
              rest(h) == IF h[1].off = 0 THEN rtr.files["main.go"] ELSE ""
              backupFileName == backupName(rtr.files)
              \* after the switch: main.go created empty, or its bytes copied to the backup
              fs1 == IF exists THEN put(rtr.files, backupFileName, rest(mainFile))
                     ELSE put(rtr.files, "main.go", "")
              h1 == IF exists
                    THEN <<[mainFile[1] EXCEPT !.off = Len(rtr.files["main.go"])]>>
                    ELSE mainFile
              \* io.Copy(mainContent, mainFile): a nil file gives os.ErrInvalid
              readErr == h1 = <<>>
              mainContent == IF readErr THEN "" ELSE rest(h1)
              generated == generateMainContent(type, mainContent, setup)
              buffer == mainContent \o generated
              \* mainFile.Truncate(0): its error is dropped
              fs2 == IF h1 # <<>> /\ h1[1].write THEN put(fs1, "main.go", "") ELSE fs1
              \* io.Copy(mainFile, mainContent): an empty buffer writes nothing
              writeErr == buffer # "" /\ ~h1[1].write
              fs3 == IF buffer # "" /\ h1[1].write THEN put(fs2, "main.go", buffer) ELSE fs2
              end(f, e) == [rtr EXCEPT !.pc = "done", !.files = f, !.setup = setup, !.err = e]
          IN  rtr' =
                IF create = "fail"
                THEN [rtr EXCEPT !.pc = "done",
                         !.err = IF exists THEN "failed to create backup file"
                                 ELSE "failed to create main.go"]
                ELSE IF readErr THEN [rtr EXCEPT !.pc = "done", !.files = fs1,
                                                 !.err = "failed to read main.go"]
                ELSE IF writeErr THEN end(fs2, "failed to write updated main.go")
                ELSE end(fs3, "nil")
    /\ UNCHANGED <<genVars, mapVars, wiz, proj>>

RouterNext == RouterAction \/ UpdateMainFile

SpecRouter == RouterInit /\ [][RouterNext]_vars

\* ------------------------------------------------------------------------
\* Properties.

\* C1: Generate always terminates by returning nil or an error, also on
\* packages whose structs embed themselves or each other: the process never
\* dies of a stack overflow inside Generate.
C1_GenerateReturns == pc # "fatal"

\* The calls C2 is about: an empty input, an empty output, an invalid input
\* path, or a directory-mode output path that exists as a file.
C2_InputError ==
    \/ input = <<>>
    \/ output = <<>>
    \/ err \in {"file path is invalid or points to a directory", "directory path is invalid"}
    \/ /\ err = "failed to check output directory status"
       /\ fs0[output].t = "file"

\* C2: when Generate reports an input error, the file system is as it was
\* before the call: nothing was created, modified or deleted.
C2_NoPartialWork == (pc = "done" /\ C2_InputError) => fs = fs0

LoadErrors ==
    {"file path is invalid or points to a directory", "directory path is invalid",
     "failed to parse directory", "no go packages found in the directory",
     "package contains build or load errors", "failed to parse package files"}

\* Generate returned an error after it had prepared the output target.
FailedAfterPrepare ==
    /\ pc = "done"
    /\ err \in LoadErrors \cup {"no packages found for the given input",
                                "failed to write output file", "failed to write package file"}

\* Neither the output path nor anything under it exists.
outputGone == \A q \in FsPaths : (q = output \/ isUnder(q, output)) => fs[q] = Absent

C4_SameOutputTwice ==
    (pc = "done" /\ run > 1 /\ err = "nil" /\ prev.err = "nil" /\ ~isSingleFile(output))
        => fs = prev.fs

\* C5: a field tagged ts:"ignore", or whose json tag is exactly "-",
\* contributes no line, named or embedded.
C5_IgnoredFieldHasNoLine ==
    (mpc = "fields" /\ ~fld.Tag.nil /\ (fld.Tag.ts = Lit.ignore \/ fld.Tag.json = <<"-">>))
        => lines = <<>>

\* The property name of the named field fld.
propNameOf(f) ==
    IF ~f.Tag.nil /\ f.Tag.json # <<>> /\ Split(f.Tag.json, ",")[1] # <<>>
    THEN Split(f.Tag.json, ",")[1]
    ELSE f.Names[1]

\* Whether the json tag of f has the option opt.
hasJsonOption(f, opt) ==
    /\ ~f.Tag.nil
    /\ \E i \in 2..Len(Split(f.Tag.json, ",")) : Split(f.Tag.json, ",")[i] = opt

\* C6: a slice or map field without omitempty/omitzero is rendered
\* "name: T | null;": no "?", and the type ends with " | null".
C6_SliceOrMapIsNullable ==
    (/\ mpc = "fields"
     /\ Len(fld.Names) = 1
     /\ fld.Type.k \in {"ArrayType", "MapType"}
     /\ ~hasJsonOption(fld, Lit.omitempty)
     /\ ~hasJsonOption(fld, Lit.omitzero)
     /\ lines # <<>>)
        => /\ HasPrefix(lines[1], propNameOf(fld) \o <<":", " ">>)
           /\ HasSuffix(lines[1], Lit.spPipeNull \o <<";">>)

\* C7: a pointer field *X without tag or comment is rendered
\* "name?: T | null;", T being what X alone maps to.
C7_PointerFieldLine ==
    (/\ mpc = "fields"
     /\ Len(fld.Names) = 1
     /\ fld.Type.k = "StarExpr"
     /\ fld.Tag.nil /\ fld.Doc = <<>> /\ fld.Comment = <<>>)
        => lines = << fld.Names[1] \o <<"?", ":", " ">>
                      \o exprToTSType(SampleContext, fld.Type.X, fieldContext)
                      \o Lit.spPipeNull \o <<";">> >>

\* The key the claim gives a map type: string for string and bool keys, number
\* for the other builtin keys, string for every other key.
claimedKey(key) ==
    IF key.k = "Ident" /\ key.Name \in {Lit.string, Lit.bool} THEN Lit.string
    ELSE IF key.k = "Ident" /\ key.Name \in DOMAIN basicTypeMap THEN Lit.number
    ELSE Lit.string

\* Every "Record<" in s is followed by "string, " or by "number, ".
recordKeysOk(s) ==
    \A i \in 1..Len(s) :
        HasPrefix(SubSeq(s, i, Len(s)), Lit.recordOpen) =>
            \E key \in {Lit.string, Lit.number} :
                HasPrefix(SubSeq(s, i, Len(s)), Lit.recordOpen \o key \o <<",", " ">>)

\* C8: every map type, at any depth, is emitted as Record<k, v> with k exactly
\* string or number, by the rule of claimedKey.
C8_MapKeys ==
    /\ mpc = "alias" =>
          /\ recordKeysOk(alias)
          /\ fld.Type.k = "MapType" =>
                /\ HasPrefix(alias, Lit.recordOpen \o claimedKey(fld.Type.Key) \o <<",", " ">>)
                /\ alias[Len(alias)] = ">"
          /\ (fld.Type.k \in {"ArrayType", "StarExpr"} /\ fld.Type[IF fld.Type.k = "ArrayType" THEN "Elt" ELSE "X"].k = "MapType") =>
                Contains(alias, Lit.recordOpen
                    \o claimedKey(fld.Type[IF fld.Type.k = "ArrayType" THEN "Elt" ELSE "X"].Key)
                    \o <<",", " ">>)
    /\ mpc = "fields" => \A i \in 1..Len(lines) : recordKeysOk(lines[i])

\* A slice of maps keyed by int, emitted with the key number.
C8_Witness ==
    /\ mpc = "alias"
    /\ fld.Type = ArrayType(MapType(Ident(Lit.int), Ident(Lit.bool)))
    /\ alias = <<"(">> \o Lit.recordOpen \o Lit.number \o <<",", " ">> \o Lit.boolean
               \o <<">", ")", "[", "]">>

\* The directive vocabulary of ts_type.
Vocabulary ==
    {Lit.string, Lit.number, Lit.boolean, Lit.object, Lit.array, Lit.any,
     Lit.Uint8Array, Lit.ArrayBuffer}

\* The type the claim gives a byte slice under the ts_type value v ("" for none).
claimedBytes(v) ==
    CASE v = <<>> -> Lit.string
      [] v = Lit.string -> Lit.string
      [] v = Lit.number -> Lit.number
      [] v = Lit.boolean -> Lit.boolean
      [] v = Lit.object -> Lit.recordStringAny
      [] v = Lit.array -> Lit.anyArr
      [] v = Lit.any -> Lit.any
      [] v = Lit.Uint8Array -> Lit.Uint8Array
      [] v = Lit.ArrayBuffer -> Lit.ArrayBuffer

isByteSlice(expr) ==
    expr.k = "ArrayType" /\ expr.Elt \in {Ident(Lit.byte), Ident(Lit.uint8)}

claimedWrap(ts) ==
    IF Contains(ts, <<" ">>) \/ Contains(ts, <<"|">>) \/ HasPrefix(ts, <<"{">>)
    THEN <<"(">> \o ts \o <<")">>
    ELSE ts

\* C10: a slice or array of T, T not byte/uint8, maps to the mapping of T
\* followed by "[]", the mapping of T in parentheses exactly when it contains a
\* space, contains "|" or starts with "{"; in a field as in an alias.
C10_SliceOfT ==
    LET elt == exprToTSType(SampleContext, fld.Type.Elt, fieldContext)
    IN  (fld.Type.k = "ArrayType" /\ ~isByteSlice(fld.Type)) =>
            /\ mpc = "alias" => alias = claimedWrap(elt) \o <<"[", "]">>
            /\ (mpc = "fields" /\ Len(fld.Names) = 1 /\ lines # <<>>) =>
                  \E q \in {<<>>, <<"?">>} :
                      HasPrefix(lines[1], propNameOf(fld) \o q \o <<":", " ">>
                                          \o claimedWrap(elt) \o <<"[", "]">>)

\* A slice of empty inline structs: the element is parenthesized for its "{".
C10_Witness ==
    /\ mpc = "alias"
    /\ fld.Type = ArrayType(StructType(<<>>))
    /\ alias = <<"(", "{", "}", ")", "[", "]">>

\* The builtin identifiers the fixed table maps to number.
NumericNames ==
    {Lit.byte, Lit.rune, Lit.int, Lit.int8, Lit.int16, Lit.int32, Lit.int64, Lit.uint,
     Lit.uint8, Lit.uint16, Lit.uint32, Lit.uint64, Lit.uintptr, Lit.float32, Lit.float64,
     Lit.complex64, Lit.complex128}

\* The type the claim gives the identifier name under the registry reg.
claimedIdent(reg, name) ==
    IF name \in {Lit.string, Lit.error} THEN Lit.string
    ELSE IF name = Lit.bool THEN Lit.boolean
    ELSE IF name \in NumericNames THEN Lit.number
    ELSE IF name = Lit.any THEN Lit.any
    ELSE IF name \in DOMAIN reg THEN name
    ELSE Lit.any

\* C11: an identifier maps to its fixed-table type when builtin, else to its
\* own name when registered, else to any; as an alias and in a field line under
\* every tag, where only "?" and " | null" surround it.
C11_IdentMapping ==
    fld.Type.k = "Ident" =>
        LET ts == claimedIdent(SampleRegistry, fld.Type.Name)
        IN  /\ mpc = "alias" => alias = ts
            /\ (mpc = "fields" /\ Len(fld.Names) = 1 /\ lines # <<>>) =>
                  /\ Len(lines) = 1
                  /\ \E q \in {<<>>, <<"?">>}, n \in {<<>>, Lit.spPipeNull} :
                        lines[1] = propNameOf(fld) \o q \o <<":", " ">> \o ts \o n \o <<";">>

\* A rune field with the tags ts:"nullable" ts_type:"number": number, made nullable.
C11_Witness ==
    /\ mpc = "fields"
    /\ fld.Type = Ident(Lit.rune)
    /\ fld.Tag.ts = Lit.nullable
    /\ lines = << Nm.F \o <<":", " ">> \o Lit.number \o Lit.spPipeNull \o <<";">> >>

\* C12: after a successful Generate in directory mode the output directory
\* holds the file <PkgName>.d.ts of every resolved package, with the content
\* generated for it, and nothing else.
C12_ExactlyPackageFiles ==
    (pc = "done" /\ err = "nil" /\ ~isSingleFile(output)) =>
        /\ fs[output] = Dir
        /\ \A i \in 1..Len(loadRes) :
              fs[filepathJoin(output, loadRes[i].PkgName \o GenLit.dotDTS)]
                  = File(results[i].content)
        /\ \A q \in FsPaths :
              (isUnder(q, output) /\ fs[q] # Absent) =>
                  \E i \in 1..Len(loadRes) :
                      q = filepathJoin(output, loadRes[i].PkgName \o GenLit.dotDTS)

\* A successful call whose output directory held an unrelated file before.
C12_Witness ==
    /\ pc = "done" /\ err = "nil"
    /\ output = Nm.o
    /\ fs0[Nm.keep] = File(Nm.old)
    /\ fs[Nm.keep] = Absent
    /\ \E q \in FsPaths : isUnder(q, output) /\ fs[q] # Absent

\* The name an embedded field names, by value or by pointer; <<>> for others.
embeddedName(f) ==
    IF f.Type.k = "Ident" THEN f.Type.Name
    ELSE IF f.Type.k = "StarExpr" /\ f.Type.X.k = "Ident" THEN f.Type.X.Name
    ELSE <<>>

\* The field lines of the structs Base, A and Mid of the sampled package.
claimedStructLines(name) ==
    LET id   == <<"I", "D", ":", " ">> \o Lit.number \o <<";">>
        tags == <<"T", "a", "g", "s", ":", " ">> \o Lit.string \o <<"[", "]">>
                    \o Lit.spPipeNull \o <<";">>
    IN  CASE name = Nm.Base -> <<id, tags>>
          [] name = Nm.A -> << <<"P", "?", ":", " ">> \o Lit.number \o Lit.spPipeNull \o <<";">> >>
          [] name = Nm.Mid -> << <<"X", ":", " ">> \o Lit.number \o <<";">>, id, tags,
                               <<"y", "?", ":", " ">> \o Lit.string \o <<";">> >>

\* C13: an embedded field naming a struct of the package, by value or by
\* pointer, gives that struct's field lines, in declaration order and at the
\* place of the embedding, with no property of its own; an embedded field of
\* any other type gives no line. (Fields carrying an ignore directive aside.)
C13_EmbeddedFlattened ==
    (/\ mpc = "fields"
     /\ Len(fld.Names) = 0
     /\ fld.Tag.ts # Lit.ignore /\ fld.Tag.json # <<"-">>) =>
        LET name == embeddedName(fld)
        IN  IF /\ name \in DOMAIN SampleRegistry
               /\ SampleRegistry[name].Type.k = "StructType"
            THEN /\ lines = claimedStructLines(name)
                 /\ \A i \in 1..Len(lines) : ~HasPrefix(lines[i], name)
            ELSE lines = <<>>

\* Mid embedded by pointer: the lines of Base stand between X and y.
C13_Witness ==
    /\ mpc = "fields"
    /\ fld.Type = StarExpr(Ident(Nm.Mid))
    /\ fld.Tag.nil
    /\ Len(lines) = 4
    /\ lines[2] = <<"I", "D", ":", " ">> \o Lit.number \o <<";">>

\* The inputs the claim calls import paths: not empty, not ending in .go, and
\* without a leading "./", "../" or "/".
claimedImportPath(in) ==
    /\ in # <<>>
    /\ ~HasSuffix(ToLower(in), GenLit.dotGo)
    /\ ~HasPrefix(in, <<".", "/">>)
    /\ ~HasPrefix(in, <<".", ".", "/">>)
    /\ ~HasPrefix(in, <<"/">>)

\* C14: an import path is resolved by the package loader, never as a local
\* directory: a resolvable one is loaded under its package path, and no call
\* on an import path ends in an error of directory mode.
C14_ImportPathMode ==
    (claimedImportPath(input) /\ output # <<>>) =>
        /\ pc = "done" =>
              err \notin {"directory path is invalid", "failed to parse directory",
                          "no go packages found in the directory"}
        /\ (pc \in {"emit", "write"} /\ splitImportType(input)[1] \in DOMAIN world.packages) =>
              loadRes[1].ImportPath = splitImportType(input)[1]

\* The last line of the comment text: what stands between the comment marks,
\* line by line without surrounding space and without a leading "*", empty
\* lines aside; <<>> when there is none.
lastCommentLine(text) ==
    IF HasPrefix(text, <<"/", "/">>) THEN TrimSpace(SubSeq(text, 3, Len(text)))
    ELSE LET parts == Split(SubSeq(text, 3, Len(text) - 2), "\n")
             norm  == [i \in 1..Len(parts) |->
                          TrimSpace(TrimPrefix(TrimSpace(parts[i]), <<"*">>))]
             full  == {i \in 1..Len(parts) : norm[i] # <<>>}
         IN  IF full = {} THEN <<>> ELSE norm[Max(full)]

\* The last of the comment lines attached to f: doc lines, then trailing lines.
lastAttachedLine(f) ==
    LET all == f.Doc \o f.Comment
    IN  IF all = <<>> THEN <<>> ELSE lastCommentLine(all[Len(all)])

\* C20: a named field gives no line when its last attached comment line is
\* exactly "ts ignore //" and it has no ts and no ts_type tag; in every other
\* case its comments change nothing: it gives the lines it gives without them.
C20_IgnoreComment ==
    (mpc = "fields" /\ Len(fld.Names) > 0) =>
        lines = IF /\ lastAttachedLine(fld) = Lit.tsIgnore
                   /\ fld.Tag.ts = <<>>
                   /\ fld.Tag.ts_type = <<>>
                THEN <<>>
                ELSE collectStructFields(SampleContext,
                        StructType(<<[fld EXCEPT !.Doc = <<>>, !.Comment = <<>>]>>))

\* C15: when a prompt of the wizard returns the terminal interrupt error,
\* whichever prompt it is, it is the last prompt asked, and
\* RunInteractiveWithPrompter has returned a nil config with the error
\* "aborted by user".
C15_InterruptAborts ==
    \A i \in 1..Len(wiz.asked) :
        wiz.asked[i].err = "interrupt"
            => /\ i = Len(wiz.asked)
               /\ wiz.pc = "done"
               /\ wiz.res = [cfg |-> <<>>, err |-> "aborted by user"]

\* The interrupt arrives in the middle of the frontend questions of a web project.
C15_Witness ==
    /\ wiz.pc = "done"
    /\ Len(wiz.asked) = 6
    /\ wiz.asked[6].label = "JS runtime:"
    /\ wiz.asked[6].err = "interrupt"
    /\ wiz.res = [cfg |-> <<>>, err |-> "aborted by user"]

\* C16: with the template cli the router, frontend, runtime, TypeScript,
\* Tailwind and editor prompts are never asked, and a returned config has an
\* empty Router and an empty Frontend.
C16_CliSkipsPrompts ==
    wiz.cfg.Template = "cli"
        => /\ \A i \in 1..Len(wiz.asked) :
                 wiz.asked[i].label \notin
                     {"Select a router:", "Add a frontend framework?", "Choose a frontend:",
                      "JS runtime:", "Use TypeScript?", "Add Tailwind CSS?",
                      "Add editor AI template (cursor/vscode/jetbrains)?",
                      "Editor (cursor/vscode/jetbrains):"}
           /\ wiz.res.cfg # <<>>
                 => wiz.res.cfg[1].Router = "" /\ wiz.res.cfg[1].Frontend = ""

\* A cli project is confirmed after exactly the five prompts that remain.
C16_Witness ==
    /\ wiz.pc = "done"
    /\ wiz.res.cfg # <<>>
    /\ wiz.res.cfg[1].Template = "cli"
    /\ wiz.res.err = "nil"
    /\ Len(wiz.asked) = 5

\* The command C17 describes for the config c.
claimedCommand(c) ==
    LET opt(b, s) == IF b THEN s ELSE ""
    IN  "gogen new --name " \o c.Name \o " --template " \o c.Template
          \o opt(c.Router # "", " --router " \o c.Router)
          \o opt(c.Frontend # "", " --frontend " \o c.Frontend \o " --runtime " \o c.Runtime)
          \o opt(c.Frontend # "" /\ c.TypeScript /\ c.Frontend # "angular", " --ts")
          \o opt(c.Frontend # "" /\ c.Tailwind, " --tailwind")
          \o opt(c.Editor # "", " --editor " \o c.Editor)
          \o opt(c.Docker, " --docker")
          \o opt(c.Module # "", " --module " \o c.Module)

\* C17: generateCommand(cfg) is `gogen new --name <Name> --template <Template>`
\* followed, in this order and separated by single spaces, by --router,
\* --frontend with --runtime, --ts, --tailwind, --editor, --docker and
\* --module, each under the condition the claim gives for it.
C17_GeneratedCommand ==
    wiz.pc = "proceed" => wiz.cmd = claimedCommand(wiz.cfg)

\* An angular config with TypeScript set: every option but --ts is present.
C17_Witness ==
    /\ wiz.pc = "proceed"
    /\ wiz.cfg.Frontend = "angular"
    /\ wiz.cfg.TypeScript
    /\ wiz.cmd = "gogen new --name app --template web --router chi --frontend angular"
                   \o " --runtime bun --tailwind --editor cursor --docker"
                   \o " --module github.com/user/app"

\* C18: `gogen new` with template api or cli, a valid flag combination and a
\* project directory that does not exist yet first creates that directory and
\* then the file go.mod inside it, holding the module name (--module, else the
\* project name), before any project file; for relative and for absolute
\* directory names.
C18_GoModInProjectDir ==
    LET fl == proj.flags
        c == proj.creator[1]
        d == Resolve(<<"w">>, c.DirName)
    IN  (/\ proj.pc = "done"
         /\ fl.template \in {"api", "cli"}
         /\ ~fl.runtimeSet
         /\ proj.creator # <<>>
         /\ validate(c) = "nil"
         /\ fl.dir.parts # <<"old">>)
            => /\ Len(proj.trace) >= 2
               /\ proj.trace[1] = [op |-> "mkdir", path |-> d, data |-> ""]
               /\ proj.trace[2] =
                     [op |-> "create", path |-> d \o <<"go.mod">>,
                      data |-> "module " \o (IF fl.module # "" THEN fl.module ELSE fl.name)
                                 \o "\n\ngo LatestGoVersion"]
               /\ d \in proj.dirs
               /\ d \o <<"go.mod">> \in DOMAIN proj.files

\* C19: `gogen router <type>` with a supported type and --update, whose
\* dependency and router package could be installed and whose files could be
\* created, returns nil and leaves main.go holding the generated router setup,
\* whether main.go existed before or not.
C19_MainGoUpdated ==
    (/\ rtr.pc = "done"
     /\ rtr.update
     /\ rtr.installed
     /\ rtr.setup # "fail"
     /\ rtr.err \notin {"failed to create backup file", "failed to create main.go"})
        => /\ rtr.err = "nil"
           /\ "main.go" \in DOMAIN rtr.files
           /\ rtr.files["main.go"] = generateMainContent(rtr.args[1], "", "ok")

\* Whether the package output content declares the type name.
declares(content, name) ==
    \/ Contains(content, GenLit.exportType \o name \o <<" ", "=", " ">>)
    \/ Contains(content, Lit.exportInterface \o name \o <<" ", "{">>)

\* Whether the last doc-comment line in front of the j-th type of declaration d
\* is the marker: the spec's own comment in a group, else the declaration's.
markedIgnore(d, j) ==
    LET doc == IF d.Specs[j].Doc # <<>> THEN d.Specs[j].Doc ELSE d.Doc
    IN  /\ doc # <<>>
        /\ TrimSpace(TrimPrefix(doc[Len(doc)], <<"/", "/">>)) = GenLit.tsIgnore

\* C21: of the types of a generated package, exactly those are declared in the
\* output whose last doc-comment line is not `ts ignore //`, be the type
\* declared on its own or inside a group.
C21_TypeIgnore ==
    (pc = "write" /\ input = <<".", "/", "s">>) =>
        \A f \in world.files : \A i \in 1..Len(f.Decls) : \A j \in 1..Len(f.Decls[i].Specs) :
            \A r \in 1..Len(results) :
                (f.pkg = results[r].pkgName /\ ~HasSuffix(f.name, GenLit.testGo)) =>
                    (declares(results[r].content, f.Decls[i].Specs[j].Name)
                        <=> ~markedIgnore(f.Decls[i], j))

\* The import path and the type filter C22 describes for the input s: s cut at
\* its last `.` when no `/` follows that dot, else s and no filter.
claimedSplit(s) ==
    LET dots == {k \in 1..Len(s) : s[k] = "." /\ \A m \in (k + 1)..Len(s) : s[m] \notin {".", "/"}}
    IN  IF dots = {} THEN <<s, <<>>>>
        ELSE LET k == CHOOSE d \in dots : TRUE
             IN  <<SubSeq(s, 1, k - 1), SubSeq(s, k + 1, Len(s))>>

\* C22: an input handled in import-path mode is loaded as the package named
\* by the part before its last dot (when no slash follows the dot) with the
\* part behind the dot as type filter, else as a whole without filter; with a
\* filter set, the output declares the type of that name and no other type.
C22_ImportSplitAndFilter ==
    (/\ pc \in {"emit", "write"}
     /\ ~HasSuffix(ToLower(input), GenLit.dotGo)
     /\ ~isLikelyPath(input))
        => /\ Len(loadRes) = 1
           /\ loadRes[1].ImportPath = claimedSplit(input)[1]
           /\ loadRes[1].TypeFilter = claimedSplit(input)[2]
           /\ (pc = "write" /\ claimedSplit(input)[2] # <<>>) =>
                 \A ts \in typeSpecsOf(loadRes[1].ASTPkg) :
                     declares(results[1].content, ts.Name) <=> ts.Name = claimedSplit(input)[2]

\* pk.R was generated: R is declared, the types B and IDs of the package are not.
C22_Witness ==
    /\ pc = "write"
    /\ input = Nm.pk \o <<".", "R">>
    /\ loadRes[1].ImportPath = Nm.pk
    /\ declares(results[1].content, <<"R">>)
    /\ ~declares(results[1].content, <<"B">>)
    /\ ~declares(results[1].content, <<"I", "D", "s">>)

\* The loaded package declares no type, or none of the name the filter asks for.
nothingToEmit ==
    /\ loadRes # <<>>
    /\ \A ts \in typeSpecsOf(loadRes[1].ASTPkg) :
           loadRes[1].TypeFilter # <<>> /\ ts.Name # loadRes[1].TypeFilter

\* The text that ends up in the output for a package of which nothing is
\* emitted: its header, behind the section banner in a single output file.
headerOnly ==
    LET h == writeHeader(loadRes[1].PkgName, loadRes[1].ImportPath)
    IN  IF isSingleFile(output)
        THEN GenLit.banner \o GenLit.package \o loadRes[1].PkgName \o <<"\n">>
             \o GenLit.banner \o <<"\n">> \o h
        ELSE h

\* C23: a package without type declarations, or a type filter matching none of
\* them, is not an error: Generate goes on to write output holding only the
\* header of the package and, when the write succeeds, returns nil. A call
\* that loaded no package returns an error.
C23_ZeroResults ==
    /\ (pc = "write" /\ nothingToEmit) =>
           results[1].content = writeHeader(loadRes[1].PkgName, loadRes[1].ImportPath)
    /\ (pc = "done" /\ nothingToEmit) =>
           /\ err \in {"nil", "failed to write output file", "failed to write package file"}
           /\ err = "nil" =>
                  LET target == IF isSingleFile(output) THEN output
                                ELSE filepathJoin(output, loadRes[1].PkgName \o GenLit.dotDTS)
                  IN  fs[target] = File(headerOnly)
    /\ (pc = "done" /\ loadRes = <<>>) => err # "nil"

\* Generate returned nil for the filter pk.No, which names no type of pk.
C23_Witness ==
    /\ pc = "done"
    /\ err = "nil"
    /\ input = Nm.pk \o <<".", "N", "o">>
    /\ nothingToEmit
    /\ typeSpecsOf(loadRes[1].ASTPkg) # {}

\* Generate returned nil for a directory whose package declares no type.
C23_WitnessNoTypes ==
    /\ pc = "done"
    /\ err = "nil"
    /\ nothingToEmit
    /\ typeSpecsOf(loadRes[1].ASTPkg) = {}

RECURSIVE underPointers(_)
\* The type behind the pointers of t.
underPointers(t) == IF t.k = "StarExpr" THEN underPointers(t.X) ELSE t

\* []byte, []uint8 and the byte arrays.
isByteSeq(t) ==
    t.k = "ArrayType" /\ t.Elt.k = "Ident" /\ t.Elt.Name \in {Lit.byte, Lit.uint8}

\* fld without its ts_type tag.
withoutTsType(f) == IF f.Tag.nil THEN f ELSE [f EXCEPT !.Tag.ts_type = <<>>]

\* fld is a named field with a ts_type tag and without an ignore comment, and
\* its line was generated.
tsTypeTagged ==
    /\ mpc = "fields"
    /\ Len(fld.Names) > 0
    /\ ~fld.Tag.nil
    /\ fld.Tag.ts_type # <<>>
    /\ ~hasTSIgnoreOnField(fld)

\* fld's lines are what they are without the ts_type tag.
sameWithoutTsType ==
    lines = collectStructFields(SampleContext, StructType(<<withoutTsType(fld)>>))

RECURSIVE bareRefs(_)
\* The identifiers a type expression is mapped through: behind pointers, slice
\* elements and map values, and in the types of the named fields a struct
\* emits. An embedded field is expanded, not referred to.
bareRefs(t) ==
    CASE t.k = "Ident" -> {t.Name}
      [] t.k = "StarExpr" -> bareRefs(t.X)
      [] t.k = "ArrayType" -> bareRefs(t.Elt)
      [] t.k = "MapType" -> bareRefs(t.Value)
      [] t.k = "StructType" ->
            UNION { bareRefs(t.Fields[i].Type) :
                      i \in {j \in 1..Len(t.Fields) :
                                Len(t.Fields[j].Names) > 0 /\ ~fieldDropped(t.Fields[j])} }
      [] OTHER -> {}

\* C25: in the output of a package, every type of the package that a declared
\* type refers to by its bare name is declared as well, with and without a
\* type filter.
C25_BareRefsDeclared ==
    pc = "write" =>
        \A r \in 1..Len(results) :
            LET specs == typeSpecsOf(loadRes[r].ASTPkg)
            IN  \A ts \in specs : \A ref \in specs :
                    (/\ declares(results[r].content, ts.Name)
                     /\ ref.Name \in bareRefs(ts.Type)
                     /\ Contains(results[r].content, <<":", " ">> \o ref.Name))
                        => declares(results[r].content, ref.Name)

\* Without a type filter every bare reference has its declaration.
C25_UnfilteredRefsDeclared == (\A r \in 1..Len(loadRes) : loadRes[r].TypeFilter = <<>>) => C25_BareRefsDeclared

\* The options of fld's json tag: what follows its first comma, cut at commas.
jsonOptions ==
    IF fld.Tag.nil \/ fld.Tag.json = <<>> THEN {}
    ELSE LET parts == Split(fld.Tag.json, ",")
         IN  {parts[i] : i \in 2..Len(parts)}

\* The property name of fld's i-th name: the name of the json tag, if it has one.
propertyName(i) ==
    IF fld.Tag.nil \/ fld.Tag.json = <<>> \/ Split(fld.Tag.json, ",")[1] = <<>>
    THEN fld.Names[i]
    ELSE Split(fld.Tag.json, ",")[1]

C28_ConfigOnlyAfterYes ==
    /\ \A i \in 1..Len(wiz.asked) :
          wiz.asked[i].label = "Proceed with generation?" =>
              /\ i = Len(wiz.asked)
              /\ wiz.out = printSummary(wiz.cfg)
              /\ wiz.cmd = generateCommand(wiz.cfg)
    /\ (wiz.pc = "done" /\ wiz.res.cfg # <<>>) =>
          /\ wiz.res = [cfg |-> <<wiz.cfg>>, err |-> "nil"]
          /\ wiz.asked[Len(wiz.asked)].label = "Proceed with generation?"
          /\ wiz.asked[Len(wiz.asked)].err = "nil"
          /\ wiz.asked[Len(wiz.asked)].val = TRUE
    /\ (/\ wiz.pc = "done"
        /\ wiz.asked[Len(wiz.asked)].label = "Proceed with generation?"
        /\ wiz.asked[Len(wiz.asked)].err = "nil"
        /\ wiz.asked[Len(wiz.asked)].val = FALSE)
          => wiz.res = [cfg |-> <<>>, err |-> "aborted by user"]

\* The wizard was answered throughout and the final prompt was answered no.
C28_Witness ==
    /\ wiz.pc = "done"
    /\ wiz.out # ""
    /\ wiz.asked[Len(wiz.asked)] = [label |-> "Proceed with generation?", val |-> FALSE, err |-> "nil"]
    /\ wiz.res.err = "aborted by user"

\* The wizard returned a config.
C28_WitnessYes ==
    /\ wiz.pc = "done"
    /\ wiz.res.cfg # <<>>
    /\ wiz.res.cfg[1].Template = "web"

\* C29: in single-file mode, with a file at the output path before the call,
\* a call that fails before the write step (or dies before it) leaves that
\* file as it was, and a call that succeeds leaves the file holding exactly
\* the content generated by this call.
C29_SingleFileKeptOrReplaced ==
    (isSingleFile(output) /\ fs0[output].t = "file") =>
        /\ (pc = "done" /\ err \notin {"nil", "failed to write output file"}) =>
               fs[output] = fs0[output]
        /\ pc \in {"prepare", "load", "emit", "write", "fatal"} => fs[output] = fs0[output]
        /\ (pc = "done" /\ err = "nil") =>
               fs[output] = File(singleFileContent(results, 1))

\* A first call failed to load its input and p/f.d.ts has its old content.
C29_Witness ==
    /\ pc = "done"
    /\ err \in LoadErrors
    /\ output = Nm.f
    /\ fs0[Nm.f] = File(Nm.old)
    /\ fs[Nm.f] = File(Nm.old)

\* A call succeeded and the old content of p/f.d.ts is gone.
C29_WitnessReplaced ==
    /\ pc = "done"
    /\ err = "nil"
    /\ output = Nm.f
    /\ fs0[Nm.f] = File(Nm.old)
    /\ fs[Nm.f] # fs0[Nm.f]
    /\ ~Contains(fs[Nm.f].data, Nm.old)

\* C30: every config the wizard returns has a router exactly for the api and
\* web templates, a frontend only for web, a runtime exactly with a frontend,
\* TypeScript and Tailwind only with a frontend, and TypeScript with angular;
\* the flags of its command pass the runtime check and validate of `gogen new`.
C30_ReturnedConfigValid ==
    (wiz.pc = "done" /\ wiz.res.cfg # <<>>) =>
        LET c == wiz.res.cfg[1]
        IN  /\ c.Router # "" <=> c.Template \in {"api", "web"}
            /\ c.Frontend # "" => c.Template = "web"
            /\ c.Runtime # "" <=> c.Frontend # ""
            /\ (c.TypeScript \/ c.Tailwind) => c.Frontend # ""
            /\ c.Frontend = "angular" => c.TypeScript
            /\ ~(c.Runtime # "" /\ c.Template # "web")
            /\ validate([Template |-> c.Template, FrontendFramework |-> c.Frontend,
                         UseTypeScript |-> c.TypeScript, UseTailwind |-> c.Tailwind]) = "nil"

\* The wizard returned a web project with an angular frontend.
C30_Witness ==
    /\ wiz.pc = "done"
    /\ wiz.res.cfg # <<>>
    /\ wiz.res.cfg[1].Template = "web"
    /\ wiz.res.cfg[1].Frontend = "angular"
    /\ wiz.res.cfg[1].TypeScript
    /\ wiz.res.cfg[1].Router # ""

====
